---- MODULE Spec2Model ----
(***************************************************************************)
(* A model of the shogi rules engine of niku529/shogistack                 *)
(* (src/pages/GameRoom.tsx, second half: the contents of shogiUtils) and   *)
(* of src/utils/promotionUtils.ts.  A board is board[y][x] as in the       *)
(* source; y = 0 is gote's home rank, y = 8 is sente's.                    *)
(***************************************************************************)
EXTENDS Integers, Sequences, FiniteSets, TLC

VARIABLES
  board,    \* displayBoard: the position shown, board[y][x]
  hands,    \* displayHands: hands[player][pieceType]
  turn,     \* displayTurn
  ply,      \* number of moves applied so far
  free,     \* how many of them left the book line
  move,     \* the move last judged or played
  flag,     \* checkUchiFuzume of the last isValidMove call
  verdict,  \* how that call ended: "true", "false", "TypeError" ("none" before)
  phase,    \* where the caller stands
  inp,      \* arguments of a direct call of a pure function
  out       \* its result

vars == <<board, hands, turn, ply, free, move, flag, verdict, phase, inp, out>>

(***************************************************************************)
(* Types (src/unnamed/part_002, types.ts)                                  *)
(***************************************************************************)
Player == {"sente", "gote"}

BaseTypes == {"Pawn", "Lance", "Knight", "Silver", "Gold", "Bishop", "Rook", "King"}

PromotedTypes ==
  {"PromotedPawn", "PromotedLance", "PromotedKnight", "PromotedSilver", "Horse", "Dragon"}

PieceType == BaseTypes \cup PromotedTypes

BoardSize == 9

Idx == 0 .. (BoardSize - 1)

\* JavaScript's null in a square of the board.
Null == [type |-> "null", owner |-> "none", isPromoted |-> FALSE]

\* What board[y][x] gives for y in range and x out of range (a falsy value).
Undefined == [type |-> "undefined", owner |-> "none", isPromoted |-> FALSE]

Pc(t, o, pr) == [type |-> t, owner |-> o, isPromoted |-> pr]

Sq(x, y) == [x |-> x, y |-> y]

EMPTY_HAND == [t \in PieceType |-> 0]

Other(p) == IF p = "sente" THEN "gote" ELSE "sente"

Abs(n) == IF n < 0 THEN -n ELSE n

Sign(n) == IF n > 0 THEN 1 ELSE IF n < 0 THEN -1 ELSE 0

InRange(c) == c.x \in Idx /\ c.y \in Idx

\* A move of types.ts.  `from` is coordinates or the string 'hand': fromHand
\* says which, and from is read only when fromHand is FALSE.
BoardMove(f, t, p, pr) ==
  [fromHand |-> FALSE, from |-> f, to |-> t, piece |-> p, drop |-> FALSE, isPromoted |-> pr]

DropMove(t, p) ==
  [fromHand |-> TRUE, from |-> Sq(0, 0), to |-> t, piece |-> p, drop |-> TRUE, isPromoted |-> FALSE]

(***************************************************************************)
(* createInitialBoard                                                      *)
(***************************************************************************)
BackRank == <<"Lance", "Knight", "Silver", "Gold", "King", "Gold", "Silver", "Knight", "Lance">>

createInitialBoard ==
  [y \in Idx |-> [x \in Idx |->
     CASE y = 0 -> Pc(BackRank[x + 1], "gote", FALSE)
       [] y = 1 /\ x = 1 -> Pc("Rook", "gote", FALSE)
       [] y = 1 /\ x = 7 -> Pc("Bishop", "gote", FALSE)
       [] y = 2 -> Pc("Pawn", "gote", FALSE)
       [] y = 6 -> Pc("Pawn", "sente", FALSE)
       [] y = 7 /\ x = 7 -> Pc("Rook", "sente", FALSE)
       [] y = 7 /\ x = 1 -> Pc("Bishop", "sente", FALSE)
       [] y = 8 -> Pc(BackRank[x + 1], "sente", FALSE)
       [] OTHER -> Null]]

(***************************************************************************)
(* Helpers                                                                 *)
(***************************************************************************)
\* getReversePieceType that hands the captured type back as it stood.
getReversePieceType_AsIs(type) == type

getReversePieceType(type) ==
  CASE type = "PromotedPawn" -> "Pawn"
    [] type = "PromotedLance" -> "Lance"
    [] type = "PromotedKnight" -> "Knight"
    [] type = "PromotedSilver" -> "Silver"
    [] type = "Horse" -> "Bishop"
    [] type = "Dragon" -> "Rook"
    [] OTHER -> type

promotePiece(type) ==
  CASE type = "Pawn" -> "PromotedPawn"
    [] type = "Lance" -> "PromotedLance"
    [] type = "Knight" -> "PromotedKnight"
    [] type = "Silver" -> "PromotedSilver"
    [] type = "Bishop" -> "Horse"
    [] type = "Rook" -> "Dragon"
    [] OTHER -> type

\* The loop of hasObstacle from the square (x, y) on.
RECURSIVE obstacleWalk(_, _, _, _, _, _, _)
obstacleWalk(x, y, dx, dy, x2, y2, b) ==
  IF x = x2 /\ y = y2 THEN FALSE
  ELSE IF b[y][x] # Null THEN TRUE
  ELSE obstacleWalk(x + dx, y + dy, dx, dy, x2, y2, b)

\* hasObstacle that also looks at the square of arrival.
hasObstacle_ChecksDestination(x1, y1, x2, y2, b) ==
  LET dx == Sign(x2 - x1)
      dy == Sign(y2 - y1)
  IN \/ obstacleWalk(x1 + dx, y1 + dy, dx, dy, x2, y2, b)
     \/ ((x1 # x2 \/ y1 # y2) /\ b[y2][x2] # Null)

hasObstacle(x1, y1, x2, y2, b) ==
  LET dx == Sign(x2 - x1)
      dy == Sign(y2 - y1)
  IN obstacleWalk(x1 + dx, y1 + dy, dx, dy, x2, y2, b)

goldMove(dx, dy, forward) ==
  \/ (Abs(dx) = 1 /\ dy = 0) \/ (Abs(dx) = 0 /\ Abs(dy) = 1)
  \/ (Abs(dx) = 1 /\ dy = forward)

canPieceMoveTo(b, from, to, pieceObj, currentTurn) ==
  LET dx == to.x - from.x
      dy == to.y - from.y
      forward == IF currentTurn = "sente" THEN -1 ELSE 1
      type == pieceObj.type
      promoted == pieceObj.isPromoted
  IN CASE type = "Pawn" ->
            IF ~promoted THEN dx = 0 /\ dy = forward ELSE goldMove(dx, dy, forward)
       [] type = "King" -> Abs(dx) <= 1 /\ Abs(dy) <= 1
       [] type = "Gold" -> goldMove(dx, dy, forward)
       [] type = "Silver" ->
            IF promoted THEN goldMove(dx, dy, forward)
            ELSE \/ (Abs(dx) <= 1 /\ dy = forward)
                 \/ (Abs(dx) = 1 /\ dy = -forward)
       [] type = "Knight" ->
            IF promoted THEN goldMove(dx, dy, forward)
            ELSE Abs(dx) = 1 /\ dy = forward * 2
       [] type = "Lance" ->
            IF promoted THEN goldMove(dx, dy, forward)
            ELSE IF dx # 0 THEN FALSE
            ELSE IF (IF currentTurn = "sente" THEN dy >= 0 ELSE dy <= 0) THEN FALSE
            ELSE ~hasObstacle(from.x, from.y, to.x, to.y, b)
       [] type \in {"Bishop", "Horse"} ->
            IF Abs(dx) = Abs(dy) THEN ~hasObstacle(from.x, from.y, to.x, to.y, b)
            ELSE promoted /\ (Abs(dx) + Abs(dy) = 1)
       [] type \in {"Rook", "Dragon"} ->
            IF dx = 0 \/ dy = 0 THEN ~hasObstacle(from.x, from.y, to.x, to.y, b)
            ELSE promoted /\ Abs(dx) <= 1 /\ Abs(dy) <= 1
       [] OTHER -> goldMove(dx, dy, forward)

(***************************************************************************)
(* applyMove                                                               *)
(***************************************************************************)
SetSq(b, c, p) == [b EXCEPT ![c.y][c.x] = p]

\* board[c.y][c.x] as JavaScript reads it: a column outside the row gives
\* undefined.
ReadSq(b, c) == IF c.x \in Idx THEN b[c.y][c.x] ELSE Undefined

Falsy(p) == p = Null \/ p = Undefined

\* applyMove that does not clear the square the piece left.
applyMove_KeepsOrigin(currentBoard, currentHands, m, currentTurn) ==
  LET nextTurn == Other(currentTurn)
  IN IF m.drop THEN
       IF m.fromHand THEN
         [board |-> SetSq(currentBoard, m.to, Pc(m.piece, currentTurn, FALSE)),
          hands |-> [currentHands EXCEPT ![currentTurn][m.piece] = @ - 1],
          turn |-> nextTurn]
       ELSE [board |-> currentBoard, hands |-> currentHands, turn |-> nextTurn]
     ELSE
       LET piece == ReadSq(currentBoard, m.from)
           targetSquare == currentBoard[m.to.y][m.to.x]
           newType == IF m.isPromoted THEN promotePiece(piece.type) ELSE piece.type
           moved == [piece EXCEPT !.type = newType,
                                  !.isPromoted = m.isPromoted \/ piece.isPromoted]
       IN IF ~Falsy(piece) THEN
            [board |-> SetSq(currentBoard, m.to, moved),
             hands |-> IF targetSquare # Null
                       THEN [currentHands EXCEPT
                               ![currentTurn][getReversePieceType(targetSquare.type)] = @ + 1]
                       ELSE currentHands,
             turn |-> nextTurn]
          ELSE [board |-> currentBoard, hands |-> currentHands, turn |-> nextTurn]

\* applyMove that returns its arguments, the turn included, when the origin
\* of a board move is empty.
applyMove_EmptyOriginKeepsTurn(currentBoard, currentHands, m, currentTurn) ==
  LET nextTurn == Other(currentTurn)
  IN IF m.drop THEN
       IF m.fromHand THEN
         [board |-> SetSq(currentBoard, m.to, Pc(m.piece, currentTurn, FALSE)),
          hands |-> [currentHands EXCEPT ![currentTurn][m.piece] = @ - 1],
          turn |-> nextTurn]
       ELSE [board |-> currentBoard, hands |-> currentHands, turn |-> nextTurn]
     ELSE
       LET piece == ReadSq(currentBoard, m.from)
           targetSquare == currentBoard[m.to.y][m.to.x]
           newType == IF m.isPromoted THEN promotePiece(piece.type) ELSE piece.type
           moved == [piece EXCEPT !.type = newType,
                                  !.isPromoted = m.isPromoted \/ piece.isPromoted]
       IN IF ~Falsy(piece) THEN
            [board |-> SetSq(SetSq(currentBoard, m.to, moved), m.from, Null),
             hands |-> IF targetSquare # Null
                       THEN [currentHands EXCEPT
                               ![currentTurn][getReversePieceType(targetSquare.type)] = @ + 1]
                       ELSE currentHands,
             turn |-> nextTurn]
          ELSE [board |-> currentBoard, hands |-> currentHands, turn |-> currentTurn]


applyMove(currentBoard, currentHands, m, currentTurn) ==
  LET nextTurn == Other(currentTurn)
  IN IF m.drop THEN
       IF m.fromHand THEN
         [board |-> SetSq(currentBoard, m.to, Pc(m.piece, currentTurn, FALSE)),
          hands |-> [currentHands EXCEPT ![currentTurn][m.piece] = @ - 1],
          turn |-> nextTurn]
       ELSE [board |-> currentBoard, hands |-> currentHands, turn |-> nextTurn]
     ELSE
       LET piece == ReadSq(currentBoard, m.from)
           targetSquare == currentBoard[m.to.y][m.to.x]
           newType == IF m.isPromoted THEN promotePiece(piece.type) ELSE piece.type
           moved == [piece EXCEPT !.type = newType,
                                  !.isPromoted = m.isPromoted \/ piece.isPromoted]
       IN IF ~Falsy(piece) THEN
            [board |-> SetSq(SetSq(currentBoard, m.to, moved), m.from, Null),
             hands |-> IF targetSquare # Null
                       THEN [currentHands EXCEPT
                               ![currentTurn][getReversePieceType(targetSquare.type)] = @ + 1]
                       ELSE currentHands,
             turn |-> nextTurn]
          ELSE [board |-> currentBoard, hands |-> currentHands, turn |-> nextTurn]

\* applyMove writing into the board and hands it was given.
applyMoveInputs_Shared(currentBoard, currentHands, m, currentTurn) ==
  [board |-> applyMove(currentBoard, currentHands, m, currentTurn).board,
   hands |-> applyMove(currentBoard, currentHands, m, currentTurn).hands]

\* The board and hands given to applyMove as the call leaves them: every
\* write of applyMove goes to newBoard and newHands, copies made down to the
\* pieces and to the two hands.
applyMoveInputs(currentBoard, currentHands, m, currentTurn) ==
  [board |-> currentBoard, hands |-> currentHands]

\* How a call of applyMove ends: "ok"; "TypeError" when a row outside the
\* board is indexed (newBoard[y] is undefined) or the origin of a board move
\* is the string 'hand'; "ragged" when a piece is stored at a column outside
\* 0..8 of a row of the board.
applyMoveOutcome(currentBoard, m) ==
  IF m.drop THEN
    IF ~m.fromHand THEN "ok"
    ELSE IF m.to.y \notin Idx THEN "TypeError"
    ELSE IF m.to.x \notin Idx THEN "ragged"
    ELSE "ok"
  ELSE
    IF m.fromHand THEN "TypeError"
    ELSE IF m.from.y \notin Idx THEN "TypeError"
    ELSE IF Falsy(ReadSq(currentBoard, m.from)) THEN "ok"
    ELSE IF m.to.y \notin Idx THEN "TypeError"
    ELSE IF m.to.x \notin Idx THEN "ragged"
    ELSE "ok"

(***************************************************************************)
(* isKingInCheck                                                           *)
(***************************************************************************)
KingSquares(b, p) ==
  {c \in [x : Idx, y : Idx] : b[c.y][c.x].type = "King" /\ b[c.y][c.x].owner = p}

\* The first king of the row-major scan (y outer, x inner).
FirstKing(b, p) ==
  CHOOSE c \in KingSquares(b, p) :
    \A d \in KingSquares(b, p) : c.y < d.y \/ (c.y = d.y /\ c.x <= d.x)

\* isKingInCheck that moves the attackers as pieces of the king's side.
isKingInCheck_TargetAsMover(b, targetTurn) ==
  LET attackerTurn == Other(targetTurn)
  IN \E kingPos \in KingSquares(b, targetTurn) :
       /\ kingPos = FirstKing(b, targetTurn)
       /\ \E y \in Idx : \E x \in Idx :
            /\ b[y][x].owner = attackerTurn
            /\ canPieceMoveTo(b, Sq(x, y), kingPos, b[y][x], targetTurn)

isKingInCheck(b, targetTurn) ==
  LET attackerTurn == Other(targetTurn)
  IN \E kingPos \in KingSquares(b, targetTurn) :
       /\ kingPos = FirstKing(b, targetTurn)
       /\ \E y \in Idx : \E x \in Idx :
            /\ b[y][x].owner = attackerTurn
            /\ canPieceMoveTo(b, Sq(x, y), kingPos, b[y][x], attackerTurn)

(***************************************************************************)
(* isValidMove and hasLegalMoves                                           *)
(***************************************************************************)
\* nifu with the indices of the scan exchanged: it walks the rank of the drop.
nifu_RowScan(b, currentTurn, x) ==
  \E y \in Idx :
    LET p == b[x][y]
    IN p # Null /\ p.owner = currentTurn /\ p.type = "Pawn" /\ ~p.isPromoted

\* The two-pawn scan of the drop branch (nifu).
nifu(b, currentTurn, x) ==
  \E y \in Idx :
    LET p == b[y][x]
    IN p # Null /\ p.owner = currentTurn /\ p.type = "Pawn" /\ ~p.isPromoted

\* deadDrop with sente's ranks for both players.
deadDrop_SenteRanks(currentTurn, piece, to) ==
  \/ (piece \in {"Pawn", "Lance"} /\ to.y = 0)
  \/ (piece = "Knight" /\ to.y <= 1)

\* The drop of a piece that could never move again.
deadDrop(currentTurn, piece, to) ==
  IF currentTurn = "sente"
  THEN \/ (piece \in {"Pawn", "Lance"} /\ to.y = 0)
       \/ (piece = "Knight" /\ to.y <= 1)
  ELSE \/ (piece \in {"Pawn", "Lance"} /\ to.y = 8)
       \/ (piece = "Knight" /\ to.y >= 7)

\* dropBlocked without the test of the hand.
dropBlocked_NoHandTest(b, h, currentTurn, m) == b[m.to.y][m.to.x] # Null

\* The first two tests of the drop branch: the square is taken, or the mover
\* holds none of the piece.
dropBlocked(b, h, currentTurn, m) ==
  LET targetPiece == b[m.to.y][m.to.x]
  IN IF targetPiece # Null THEN TRUE
     ELSE h[currentTurn][m.piece] <= 0

\* ownTarget when the test of the destination's owner is left out.
ownTarget_Never(b, currentTurn, to) == FALSE

\* The destination holds a piece of the mover.
ownTarget(b, currentTurn, to) ==
  LET targetPiece == b[to.y][to.x]
  IN targetPiece # Null /\ targetPiece.owner = currentTurn

RECURSIVE hasLegalMoves(_, _, _)

\* afterMoveOk without the self-check test.
afterMoveOk_NoSelfCheck(b, h, currentTurn, m, checkUchiFuzume) ==
  LET next == applyMove(b, h, m, currentTurn)
      nextTurn == Other(currentTurn)
  IN ~(/\ checkUchiFuzume /\ m.drop /\ m.piece = "Pawn"
       /\ isKingInCheck(next.board, nextTurn)
       /\ ~hasLegalMoves(next.board, next.hands, nextTurn))

\* afterMoveOk where the pawn-drop-mate test asks for check only.
afterMoveOk_AnyCheck(b, h, currentTurn, m, checkUchiFuzume) ==
  LET next == applyMove(b, h, m, currentTurn)
      nextTurn == Other(currentTurn)
  IN IF isKingInCheck(next.board, currentTurn) THEN FALSE
     ELSE ~(/\ checkUchiFuzume /\ m.drop /\ m.piece = "Pawn"
            /\ isKingInCheck(next.board, nextTurn))

\* The self-check test and the pawn-drop-mate test, once the shape of the
\* move has passed.
afterMoveOk(b, h, currentTurn, m, checkUchiFuzume) ==
  LET next == applyMove(b, h, m, currentTurn)
      nextTurn == Other(currentTurn)
  IN IF isKingInCheck(next.board, currentTurn) THEN FALSE
     ELSE IF checkUchiFuzume /\ m.drop /\ m.piece = "Pawn"
               /\ isKingInCheck(next.board, nextTurn)
               /\ ~hasLegalMoves(next.board, next.hands, nextTurn)
          THEN FALSE
          ELSE TRUE

\* isValidMove that refuses the promotion of a Gold or a King.
isValidMoveResult_NoGoldPromotion(b, h, currentTurn, m, checkUchiFuzume) ==
  IF ~InRange(m.to) THEN "false"
  ELSE LET targetPiece == b[m.to.y][m.to.x]
       IN IF ownTarget(b, currentTurn, m.to) THEN "false"
          ELSE IF m.drop THEN
            IF dropBlocked(b, h, currentTurn, m) THEN "false"
            ELSE IF m.piece = "Pawn" /\ nifu(b, currentTurn, m.to.x) THEN "false"
            ELSE IF deadDrop(currentTurn, m.piece, m.to) THEN "false"
            ELSE IF afterMoveOk(b, h, currentTurn, m, checkUchiFuzume) THEN "true"
            ELSE "false"
          ELSE
            IF m.fromHand THEN "false"
            ELSE IF m.from.y \notin Idx THEN "TypeError"
            ELSE LET movingPiece == ReadSq(b, m.from)
                 IN IF Falsy(movingPiece) \/ movingPiece.owner # currentTurn THEN "false"
                    ELSE IF m.isPromoted /\ movingPiece.type \in {"Gold", "King"} THEN "false"
                    ELSE IF ~canPieceMoveTo(b, m.from, m.to, movingPiece, currentTurn)
                    THEN "false"
                    ELSE IF afterMoveOk(b, h, currentTurn, m, checkUchiFuzume) THEN "true"
                    ELSE "false"

\* What a call of isValidMove ends in: "true", "false", or "TypeError" when
\* board[from.y] is undefined and its property from.x is read.
isValidMoveResult(b, h, currentTurn, m, checkUchiFuzume) ==
  IF ~InRange(m.to) THEN "false"
  ELSE LET targetPiece == b[m.to.y][m.to.x]
       IN IF ownTarget(b, currentTurn, m.to) THEN "false"
          ELSE IF m.drop THEN
            IF dropBlocked(b, h, currentTurn, m) THEN "false"
            ELSE IF m.piece = "Pawn" /\ nifu(b, currentTurn, m.to.x) THEN "false"
            ELSE IF deadDrop(currentTurn, m.piece, m.to) THEN "false"
            ELSE IF afterMoveOk(b, h, currentTurn, m, checkUchiFuzume) THEN "true"
            ELSE "false"
          ELSE
            IF m.fromHand THEN "false"
            ELSE IF m.from.y \notin Idx THEN "TypeError"
            ELSE LET movingPiece == ReadSq(b, m.from)
                 IN IF Falsy(movingPiece) \/ movingPiece.owner # currentTurn THEN "false"
                    ELSE IF ~canPieceMoveTo(b, m.from, m.to, movingPiece, currentTurn)
                    THEN "false"
                    ELSE IF afterMoveOk(b, h, currentTurn, m, checkUchiFuzume) THEN "true"
                    ELSE "false"

isValidMove(b, h, currentTurn, m, checkUchiFuzume) ==
  isValidMoveResult(b, h, currentTurn, m, checkUchiFuzume) = "true"

PromotableTypes == {"Pawn", "Lance", "Knight", "Silver", "Bishop", "Rook"}

\* hasLegalMoves without its second loop: no drop is tried.
hasLegalMoves_NoDrops(b, h, t) ==
  \E y \in Idx : \E x \in Idx :
    LET p == b[y][x]
    IN /\ p # Null /\ p.owner = t
       /\ \E ty \in Idx : \E tx \in Idx :
            /\ b[ty][tx].owner # t
            /\ canPieceMoveTo(b, Sq(x, y), Sq(tx, ty), p, t)
            /\ LET mv == BoardMove(Sq(x, y), Sq(tx, ty), p.type, FALSE)
                   canPromote == p.type \in PromotableTypes
                   isZone == IF t = "sente" THEN (y <= 2 \/ ty <= 2)
                                            ELSE (y >= 6 \/ ty >= 6)
               IN \/ isValidMove(b, h, t, mv, FALSE)
                  \/ /\ canPromote /\ isZone
                     /\ isValidMove(b, h, t, [mv EXCEPT !.isPromoted = TRUE], FALSE)

hasLegalMoves(b, h, t) ==
  \/ \E y \in Idx : \E x \in Idx :
       LET p == b[y][x]
       IN /\ p # Null /\ p.owner = t
          /\ \E ty \in Idx : \E tx \in Idx :
               /\ b[ty][tx].owner # t
               /\ canPieceMoveTo(b, Sq(x, y), Sq(tx, ty), p, t)
               /\ LET mv == BoardMove(Sq(x, y), Sq(tx, ty), p.type, FALSE)
                      canPromote == p.type \in PromotableTypes
                      isZone == IF t = "sente" THEN (y <= 2 \/ ty <= 2)
                                               ELSE (y >= 6 \/ ty >= 6)
                  IN \/ isValidMove(b, h, t, mv, FALSE)
                     \/ /\ canPromote /\ isZone
                        /\ isValidMove(b, h, t, [mv EXCEPT !.isPromoted = TRUE], FALSE)
  \/ \E pieceType \in PieceType :
       /\ h[t][pieceType] > 0
       /\ \E ty \in Idx : \E tx \in Idx :
            /\ b[ty][tx] = Null
            /\ isValidMove(b, h, t, DropMove(Sq(tx, ty), pieceType), FALSE)

isCheckmate(b, h, t) == isKingInCheck(b, t) /\ ~hasLegalMoves(b, h, t)

(***************************************************************************)
(* The game: the position the room displays is the replay of the move list *)
(* from the initial position (updateDisplay); a move enters the list after *)
(* isValidMove accepted it (handleSquareClick, handlePromotionChoice).     *)
(***************************************************************************)
Squares == [x : Idx, y : Idx]

NoMove == BoardMove(Sq(0, 0), Sq(0, 0), "Pawn", FALSE)

NoOut == [kind |-> "none"]

NoInp == [kind |-> "none"]

\* Free moves tried off the book line.
MaxFree == 1

\* The moves of the side to move tried on the board b: every piece of the
\* side to every square with either flag, and every drop of a type the side
\* holds and of a gold, held or not.
CandidateMoves(b, h, t) ==
  {BoardMove(f, to, b[f.y][f.x].type, pr) :
     f \in {c \in Squares : b[c.y][c.x].owner = t}, to \in Squares, pr \in BOOLEAN}
  \cup
  {DropMove(to, p) : to \in Squares, p \in {q \in PieceType : h[t][q] > 0} \cup {"Gold"}}

Init ==
  /\ board = createInitialBoard
  /\ hands = [p \in Player |-> EMPTY_HAND]
  /\ turn = "sente"
  /\ ply = 0
  /\ free = 0
  /\ move = NoMove
  /\ flag = TRUE
  /\ verdict = "none"
  /\ phase = "ready"
  /\ inp = NoInp
  /\ out = NoOut

\* processMove after a click that isValidMove accepted: the move is appended
\* and the display is the replay, one applyMove further.
Play(m) ==
  /\ isValidMove(board, hands, turn, m, TRUE)
  /\ LET res == applyMove(board, hands, m, turn)
     IN /\ board' = res.board
        /\ hands' = res.hands
        /\ turn' = res.turn
  /\ ply' = ply + 1
  /\ move' = m
  /\ UNCHANGED <<flag, verdict, phase, inp, out>>

\* The line of play the exploration follows and branches off: a bishop
\* exchange in which the promoted bishop is recaptured, a bishop dropped with
\* check, and the check answered by capturing the dropped bishop.
Book ==
  << BoardMove(Sq(2, 6), Sq(2, 5), "Pawn", FALSE),
     BoardMove(Sq(6, 2), Sq(6, 3), "Pawn", FALSE),
     BoardMove(Sq(1, 7), Sq(7, 1), "Bishop", TRUE),
     BoardMove(Sq(6, 0), Sq(7, 1), "Silver", FALSE),
     BoardMove(Sq(2, 5), Sq(2, 4), "Pawn", FALSE),
     DropMove(Sq(2, 6), "Bishop"),
     BoardMove(Sq(1, 8), Sq(2, 6), "Knight", FALSE) >>

PlayBook ==
  /\ free = 0
  /\ ply < Len(Book)
  /\ UNCHANGED free
  /\ Play(Book[ply + 1])

PlayFree ==
  /\ free < MaxFree
  /\ free' = free + 1
  /\ \E m \in CandidateMoves(board, hands, turn) : Play(m)

Next == PlayBook \/ PlayFree

Spec == Init /\ [][Next]_vars

\* A second line of play: the rook's pawn is pushed and exchanged, the rook
\* recaptures, and both players drop the pawn they took.
PawnBook ==
  << BoardMove(Sq(7, 6), Sq(7, 5), "Pawn", FALSE),
     BoardMove(Sq(0, 2), Sq(0, 3), "Pawn", FALSE),
     BoardMove(Sq(7, 5), Sq(7, 4), "Pawn", FALSE),
     BoardMove(Sq(0, 3), Sq(0, 4), "Pawn", FALSE),
     BoardMove(Sq(7, 4), Sq(7, 3), "Pawn", FALSE),
     BoardMove(Sq(7, 2), Sq(7, 3), "Pawn", FALSE),
     BoardMove(Sq(7, 7), Sq(7, 3), "Rook", FALSE),
     DropMove(Sq(7, 2), "Pawn"),
     DropMove(Sq(7, 6), "Pawn") >>

PlayPawnBook ==
  /\ free = 0
  /\ ply < Len(PawnBook)
  /\ UNCHANGED free
  /\ Play(PawnBook[ply + 1])

NextPawns == PlayPawnBook \/ PlayFree

SpecPawns == Init /\ [][NextPawns]_vars

(***************************************************************************)
(* Direct calls of isValidMove on given positions: the caller judges a     *)
(* move (handleSquareClick), then plays it (processMove, replayed by       *)
(* updateDisplay), drops it, or fails with the exception.                  *)
(***************************************************************************)
\* A board from a set of placements <<x, y, type, owner, isPromoted>>.
Place(S) ==
  [y \in Idx |-> [x \in Idx |->
     IF \E pl \in S : pl[1] = x /\ pl[2] = y
     THEN LET pl == CHOOSE q \in S : q[1] = x /\ q[2] = y
          IN Pc(pl[3], pl[4], pl[5])
     ELSE Null]]

Hand(S) == [t \in PieceType |-> IF \E e \in S : e[1] = t
                                 THEN (CHOOSE e \in S : e[1] = t)[2] ELSE 0]

Position(b, hs, hg, t) ==
  [board |-> b, hands |-> [sente |-> hs, gote |-> hg], turn |-> t]

\* The same position seen from the other side: the board turned by 180
\* degrees, owners and hands exchanged.
FlipPiece(p) == IF p = Null THEN Null ELSE [p EXCEPT !.owner = Other(p.owner)]

Flip(pos) ==
  [board |-> [y \in Idx |-> [x \in Idx |-> FlipPiece(pos.board[8 - y][8 - x])]],
   hands |-> [sente |-> pos.hands["gote"], gote |-> pos.hands["sente"]],
   turn |-> Other(pos.turn)]

\* Gote's king walled in on its home rank, a sente gold behind the drop
\* square (4,1), a pawn in sente's hand: the pawn drop mates.
PosPawnMate ==
  Position(Place({<<4, 0, "King", "gote", FALSE>>, <<3, 0, "Lance", "gote", FALSE>>,
                  <<5, 0, "Lance", "gote", FALSE>>, <<4, 2, "Gold", "sente", FALSE>>,
                  <<4, 8, "King", "sente", FALSE>>}),
           Hand({<<"Pawn", 1>>}), Hand({<<"Gold", 1>>}), "sente")

\* The same with (5,0) free: the pawn drop checks, the king steps aside.
PosPawnCheck ==
  Position(Place({<<4, 0, "King", "gote", FALSE>>, <<3, 0, "Lance", "gote", FALSE>>,
                  <<4, 2, "Gold", "sente", FALSE>>, <<4, 8, "King", "sente", FALSE>>}),
           Hand({<<"Pawn", 1>>}), EMPTY_HAND, "sente")

\* The same with a gote gold on (5,0): the dropped pawn can be taken.
PosPawnTaken ==
  Position(Place({<<4, 0, "King", "gote", FALSE>>, <<3, 0, "Lance", "gote", FALSE>>,
                  <<5, 0, "Gold", "gote", FALSE>>, <<4, 2, "Gold", "sente", FALSE>>,
                  <<4, 8, "King", "sente", FALSE>>}),
           Hand({<<"Pawn", 2>>}), EMPTY_HAND, "sente")

\* A pawn on file 2, a promoted pawn on file 6, pieces in hand.
PosFiles ==
  Position(Place({<<4, 0, "King", "gote", FALSE>>, <<4, 8, "King", "sente", FALSE>>,
                  <<2, 5, "Pawn", "sente", FALSE>>, <<6, 2, "PromotedPawn", "sente", TRUE>>,
                  <<7, 3, "Pawn", "gote", FALSE>>}),
           Hand({<<"Pawn", 2>>, <<"Lance", 1>>, <<"Knight", 1>>}),
           Hand({<<"Pawn", 1>>}), "sente")

\* Pawn, lance and knights one move from the far ranks.
PosFarRanks ==
  Position(Place({<<4, 0, "King", "gote", FALSE>>, <<4, 8, "King", "sente", FALSE>>,
                  <<0, 1, "Pawn", "sente", FALSE>>, <<1, 3, "Lance", "sente", FALSE>>,
                  <<6, 2, "Knight", "sente", FALSE>>, <<7, 3, "Knight", "sente", FALSE>>}),
           EMPTY_HAND, EMPTY_HAND, "sente")

\* A silver pinned on the king's file by a rook, a bishop giving check.
PosPinned ==
  Position(Place({<<4, 0, "King", "gote", FALSE>>, <<4, 8, "King", "sente", FALSE>>,
                  <<4, 7, "Silver", "sente", FALSE>>, <<4, 3, "Rook", "gote", FALSE>>,
                  <<3, 8, "Gold", "sente", FALSE>>}),
           Hand({<<"Gold", 1>>}), EMPTY_HAND, "sente")

PosInCheck ==
  Position(Place({<<4, 0, "King", "gote", FALSE>>, <<4, 8, "King", "sente", FALSE>>,
                  <<1, 5, "Horse", "gote", TRUE>>, <<5, 8, "Gold", "sente", FALSE>>,
                  <<7, 7, "Dragon", "sente", TRUE>>}),
           Hand({<<"Silver", 1>>, <<"Pawn", 1>>}), EMPTY_HAND, "sente")

SentePositions ==
  {PosPawnMate, PosPawnCheck, PosPawnTaken, PosFiles, PosFarRanks, PosPinned,
   PosInCheck}

TestPositions == SentePositions \cup {Flip(pos) : pos \in SentePositions}

\* Coordinates handed to isValidMove: the board and one step outside it.
Wide == -1 .. BoardSize

\* Origins tried on the position: every occupied square, and some squares
\* that are empty or off the board.
ProbeFrom == {Sq(4, 4), Sq(4, -1), Sq(4, 9), Sq(-1, 4), Sq(9, 4), Sq(9, 9)}

ProbeTo == {Sq(4, -1), Sq(4, 9), Sq(-1, 4), Sq(9, 4), Sq(-1, -1)}

ReadType(b, c) == IF InRange(c) /\ b[c.y][c.x] # Null THEN b[c.y][c.x].type ELSE "Pawn"

JudgedMoves(b, h, t) ==
  {BoardMove(f, to, ReadType(b, f), pr) :
     f \in {c \in Squares : b[c.y][c.x] # Null} \cup ProbeFrom,
     to \in Squares \cup ProbeTo, pr \in BOOLEAN}
  \cup
  {DropMove(to, p) :
     to \in Squares \cup ProbeTo,
     p \in PieceType}

InitJudge ==
  /\ \E pos \in TestPositions :
       /\ board = pos.board
       /\ hands = pos.hands
       /\ turn = pos.turn
  /\ ply = 0
  /\ free = 0
  /\ move = NoMove
  /\ flag = TRUE
  /\ verdict = "none"
  /\ phase = "ready"
  /\ inp = NoInp
  /\ out = NoOut

Judge ==
  /\ phase = "ready"
  /\ ply = 0
  /\ \E m \in JudgedMoves(board, hands, turn) :
       \E f \in (IF m.drop THEN BOOLEAN ELSE {TRUE}) :
         /\ move' = m
         /\ flag' = f
         /\ verdict' = isValidMoveResult(board, hands, turn, m, f)
  /\ phase' = "judged"
  /\ UNCHANGED <<board, hands, turn, ply, free, inp, out>>

\* isValidMove returned true: the move is played.
Commit ==
  /\ phase = "judged"
  /\ verdict = "true"
  /\ LET res == applyMove(board, hands, move, turn)
     IN /\ board' = res.board
        /\ hands' = res.hands
        /\ turn' = res.turn
  /\ ply' = ply + 1
  /\ phase' = "ready"
  /\ UNCHANGED <<free, move, flag, verdict, inp, out>>

\* isValidMove returned false: the handler returns.
Reject ==
  /\ phase = "judged"
  /\ verdict = "false"
  /\ phase' = "ready"
  /\ move' = NoMove
  /\ flag' = TRUE
  /\ verdict' = "none"
  /\ UNCHANGED <<board, hands, turn, ply, free, inp, out>>

\* isValidMove threw: the exception leaves the handler, the display stays.
Throw ==
  /\ phase = "judged"
  /\ verdict = "TypeError"
  /\ phase' = "failed"
  /\ UNCHANGED <<board, hands, turn, ply, free, move, flag, verdict, inp, out>>

NextJudge == Judge \/ Commit \/ Reject \/ Throw

SpecJudge == InitJudge /\ [][NextJudge]_vars

(***************************************************************************)
(* hasLegalMoves and isCheckmate called on the judged positions, on two    *)
(* positions more, and on the positions one accepted move later.           *)
(***************************************************************************)
\* PosPawnMate after the pawn drop on (4,1): gote is mated, a gold in hand.
PosMated ==
  Position(Place({<<4, 0, "King", "gote", FALSE>>, <<3, 0, "Lance", "gote", FALSE>>,
                  <<5, 0, "Lance", "gote", FALSE>>, <<4, 1, "Pawn", "sente", FALSE>>,
                  <<4, 2, "Gold", "sente", FALSE>>, <<4, 8, "King", "sente", FALSE>>}),
           EMPTY_HAND, Hand({<<"Gold", 1>>}), "gote")

\* Sente's king in the corner behind its own lance and pawn, checked along
\* file 8 by a rook: only a gold dropped between them answers the check.
PosDropOnly ==
  Position(Place({<<4, 0, "King", "gote", FALSE>>, <<8, 8, "King", "sente", FALSE>>,
                  <<7, 8, "Lance", "sente", FALSE>>, <<7, 7, "Pawn", "sente", FALSE>>,
                  <<8, 4, "Rook", "gote", FALSE>>}),
           Hand({<<"Gold", 1>>}), EMPTY_HAND, "sente")

\* Sente's king in the corner behind two pawns, checked along rank 8 by a
\* rook; gote's king stands on (6,7), in front of the only square where the
\* pawn in hand can be put between (file 7 has a pawn).  The dropped pawn
\* gives check and can be taken.
PosPawnShield ==
  Position(Place({<<8, 8, "King", "sente", FALSE>>, <<8, 7, "Pawn", "sente", FALSE>>,
                  <<7, 7, "Pawn", "sente", FALSE>>, <<5, 8, "Rook", "gote", FALSE>>,
                  <<6, 7, "King", "gote", FALSE>>}),
           Hand({<<"Pawn", 1>>}), EMPTY_HAND, "sente")

\* The same with a sente dragon on (6,5) and a sente gold on (4,7): gote's
\* king is attacked while sente is to move, and after the pawn drop gote has
\* no move.
PosPawnShieldMated ==
  Position(Place({<<8, 8, "King", "sente", FALSE>>, <<8, 7, "Pawn", "sente", FALSE>>,
                  <<7, 7, "Pawn", "sente", FALSE>>, <<5, 8, "Rook", "gote", FALSE>>,
                  <<6, 7, "King", "gote", FALSE>>, <<6, 5, "Dragon", "sente", TRUE>>,
                  <<4, 7, "Gold", "sente", FALSE>>}),
           Hand({<<"Pawn", 1>>}), EMPTY_HAND, "sente")

MatePositions ==
  TestPositions \cup {PosMated, Flip(PosMated), PosDropOnly, Flip(PosDropOnly),
                      PosPawnShield, Flip(PosPawnShield),
                      PosPawnShieldMated, Flip(PosPawnShieldMated)}

InitMate ==
  /\ \E pos \in MatePositions :
       /\ board = pos.board
       /\ hands = pos.hands
       /\ turn = pos.turn
  /\ ply = 0
  /\ free = 0
  /\ move = NoMove
  /\ flag = TRUE
  /\ verdict = "none"
  /\ phase = "ready"
  /\ inp = NoInp
  /\ out = NoOut

\* One move isValidMove accepts is played on the position.
PlayLegal ==
  /\ phase = "ready"
  /\ ply = 0
  /\ \E m \in CandidateMoves(board, hands, turn) : Play(m)
  /\ UNCHANGED free

CallHasLegalMoves ==
  /\ phase = "ready"
  /\ out' = [kind |-> "hasLegalMoves", result |-> hasLegalMoves(board, hands, turn)]
  /\ phase' = "returned"
  /\ UNCHANGED <<board, hands, turn, ply, free, move, flag, verdict, inp>>

CallIsCheckmate ==
  /\ phase = "ready"
  /\ out' = [kind |-> "isCheckmate", result |-> isCheckmate(board, hands, turn)]
  /\ phase' = "returned"
  /\ UNCHANGED <<board, hands, turn, ply, free, move, flag, verdict, inp>>

NextMate == PlayLegal \/ CallHasLegalMoves \/ CallIsCheckmate

SpecMate == InitMate /\ [][NextMate]_vars

(***************************************************************************)
(* updateDisplay replaying a received move: applyMove is called on the     *)
(* displayed position without isValidMove, inside try / catch.             *)
(***************************************************************************)
\* One turn of the loop of updateDisplay on the move m of the list.
Replay ==
  /\ phase = "ready"
  /\ \E m \in JudgedMoves(board, hands, turn) :
       /\ move' = m
       /\ LET outcome == applyMoveOutcome(board, m)
          IN IF outcome = "ok"
             THEN LET res == applyMove(board, hands, m, turn)
                  IN /\ board' = res.board
                     /\ hands' = res.hands
                     /\ turn' = res.turn
                     /\ phase' = "replayed"
                     /\ out' = [kind |-> "applyMove",
                                args |-> applyMoveInputs(board, hands, m, turn)]
             ELSE /\ UNCHANGED <<board, hands, turn, out>>
                  /\ phase' = IF outcome = "TypeError" THEN "caught" ELSE "ragged"
  /\ ply' = ply + 1
  /\ UNCHANGED <<free, flag, verdict, inp>>

\* isKingInCheck asked for either player on the position displayed.
CallIsKingInCheck ==
  /\ phase = "replayed"
  /\ \E p \in Player :
       out' = [kind |-> "isKingInCheck", player |-> p, result |-> isKingInCheck(board, p)]
  /\ phase' = "returned"
  /\ UNCHANGED <<board, hands, turn, ply, free, move, flag, verdict, inp>>

NextApply == Replay \/ CallIsKingInCheck

SpecApply == InitJudge /\ [][NextApply]_vars

(***************************************************************************)
(* canPieceMoveTo called for one sliding piece on a board with a few other *)
(* pieces around it.                                                       *)
(***************************************************************************)
\* Most pieces standing around the sliding piece.
MaxBlockers == 2

\* How far from the sliding piece the other pieces stand.
MaxBlockDist == 2

Cheb(a, c) ==
  IF Abs(a.x - c.x) >= Abs(a.y - c.y) THEN Abs(a.x - c.x) ELSE Abs(a.y - c.y)

SliderOrigins == {Sq(4, 4), Sq(0, 8)}

Sliders ==
  {Pc("Lance", "sente", FALSE), Pc("Lance", "gote", FALSE),
   Pc("Bishop", "sente", FALSE), Pc("Horse", "gote", TRUE),
   Pc("Rook", "gote", FALSE), Pc("Dragon", "sente", TRUE)}

\* The squares of the ranks, files and diagonals through c, up to d away.
LineSquares(c, d) ==
  {a \in Squares : /\ a # c
                   /\ Cheb(a, c) <= d
                   /\ (a.x = c.x \/ a.y = c.y \/ Abs(a.x - c.x) = Abs(a.y - c.y))}

\* The sets of at most k squares of L.
RECURSIVE UpTo(_, _)
UpTo(L, k) ==
  IF k = 0 THEN {{}}
  ELSE LET smaller == UpTo(L, k - 1)
       IN smaller \cup {S \cup {a} : S \in smaller, a \in L}

InitReach ==
  /\ hands = [p \in Player |-> EMPTY_HAND]
  /\ ply = 0
  /\ free = 0
  /\ move = NoMove
  /\ flag = TRUE
  /\ verdict = "none"
  /\ phase = "ready"
  /\ out = NoOut
  /\ \E from \in SliderOrigins, pieceObj \in Sliders :
       \E S \in UpTo(LineSquares(from, MaxBlockDist), MaxBlockers) :
         /\ board = [y \in Idx |-> [x \in Idx |->
                       IF Sq(x, y) = from THEN pieceObj
                       ELSE IF Sq(x, y) \in S THEN Pc("Pawn", "sente", FALSE)
                       ELSE Null]]
         /\ turn = pieceObj.owner
         /\ inp = [kind |-> "reach", from |-> from]

CallCanPieceMoveTo ==
  /\ phase = "ready"
  /\ inp.kind = "reach"
  /\ \E to \in {c \in Squares : Cheb(c, inp.from) <= MaxBlockDist + 1} :
       out' = [kind |-> "canPieceMoveTo", to |-> to,
               result |-> canPieceMoveTo(board, inp.from, to,
                                         board[inp.from.y][inp.from.x], turn)]
  /\ phase' = "returned"
  /\ UNCHANGED <<board, hands, turn, ply, free, move, flag, verdict, inp>>

NextReach == CallCanPieceMoveTo

SpecReach == InitReach /\ [][NextReach]_vars

(***************************************************************************)
(* getPromotionStatus (src/utils/promotionUtils.ts)                        *)
(***************************************************************************)
SENTE_PROMOTION_ZONE == {0, 1, 2}

GOTE_PROMOTION_ZONE == {6, 7, 8}

\* getPromotionStatus whose knight test reads the far rank only.
getPromotionStatus_KnightFarRankOnly(pieceType, fromY, toY, t) ==
  IF pieceType = "Gold" \/ pieceType = "King" THEN "none"
  ELSE IF pieceType \in PromotedTypes THEN "none"
  ELSE IF t = "sente" /\ pieceType \in {"Pawn", "Lance", "Knight"} /\ toY = 0 THEN "must"
  ELSE IF t # "sente" /\ pieceType \in {"Pawn", "Lance", "Knight"} /\ toY = 8 THEN "must"
  ELSE LET zone == IF t = "sente" THEN SENTE_PROMOTION_ZONE ELSE GOTE_PROMOTION_ZONE
       IN IF toY \in zone \/ fromY \in zone THEN "can" ELSE "none"

\* getPromotionStatus that looks at the rank of arrival only.
getPromotionStatus_EnteringOnly(pieceType, fromY, toY, t) ==
  IF pieceType = "Gold" \/ pieceType = "King" THEN "none"
  ELSE IF pieceType \in PromotedTypes THEN "none"
  ELSE IF t = "sente" /\ pieceType \in {"Pawn", "Lance"} /\ toY = 0 THEN "must"
  ELSE IF t = "sente" /\ pieceType = "Knight" /\ toY <= 1 THEN "must"
  ELSE IF t # "sente" /\ pieceType \in {"Pawn", "Lance"} /\ toY = 8 THEN "must"
  ELSE IF t # "sente" /\ pieceType = "Knight" /\ toY >= 7 THEN "must"
  ELSE LET zone == IF t = "sente" THEN SENTE_PROMOTION_ZONE ELSE GOTE_PROMOTION_ZONE
       IN IF toY \in zone THEN "can" ELSE "none"

getPromotionStatus(pieceType, fromY, toY, t) ==
  IF pieceType = "Gold" \/ pieceType = "King" THEN "none"
  ELSE IF pieceType \in PromotedTypes THEN "none"
  ELSE IF t = "sente" /\ pieceType \in {"Pawn", "Lance"} /\ toY = 0 THEN "must"
  ELSE IF t = "sente" /\ pieceType = "Knight" /\ toY <= 1 THEN "must"
  ELSE IF t # "sente" /\ pieceType \in {"Pawn", "Lance"} /\ toY = 8 THEN "must"
  ELSE IF t # "sente" /\ pieceType = "Knight" /\ toY >= 7 THEN "must"
  ELSE LET zone == IF t = "sente" THEN SENTE_PROMOTION_ZONE ELSE GOTE_PROMOTION_ZONE
           isEntering == toY \in zone
           isLeaving == fromY \in zone
       IN IF isEntering \/ isLeaving THEN "can" ELSE "none"

(***************************************************************************)
(* getNyugyokuState                                                        *)
(***************************************************************************)
PIECE_POINTS(type) ==
  CASE type \in {"Bishop", "Rook", "Horse", "Dragon"} -> 5
    [] type = "King" -> 0
    [] type \in PieceType -> 1
    [] OTHER -> 0

isZone(player, y) == IF player = "sente" THEN y <= 2 ELSE y >= 6

\* The board scan adding the points of the player's pieces on every rank.
squareAdds_ScoreAnywhere(b, player, x, y) ==
  LET p == b[y][x]
  IN IF p # Null /\ p.owner = player
     THEN IF p.type = "King"
          THEN [score |-> 0, pieces |-> 0, king |-> isZone(player, y)]
          ELSE [score |-> PIECE_POINTS(p.type),
                pieces |-> IF isZone(player, y) THEN 1 ELSE 0, king |-> FALSE]
     ELSE [score |-> 0, pieces |-> 0, king |-> FALSE]

\* What the body of the board scan adds for the square (x, y): to score, to
\* piecesInZone, and whether it sets kingInZone.
squareAdds(b, player, x, y) ==
  LET p == b[y][x]
  IN IF p # Null /\ p.owner = player
     THEN IF p.type = "King"
          THEN [score |-> 0, pieces |-> 0, king |-> isZone(player, y)]
          ELSE IF isZone(player, y)
               THEN [score |-> PIECE_POINTS(p.type), pieces |-> 1, king |-> FALSE]
               ELSE [score |-> 0, pieces |-> 0, king |-> FALSE]
     ELSE [score |-> 0, pieces |-> 0, king |-> FALSE]

AddCounters(u, v) ==
  [score |-> u.score + v.score, pieces |-> u.pieces + v.pieces, king |-> u.king \/ v.king]

\* The inner loop of the board scan: what row y adds from column x on.
RECURSIVE rowLoop(_, _, _, _)
rowLoop(b, player, y, x) ==
  IF x = BoardSize THEN [score |-> 0, pieces |-> 0, king |-> FALSE]
  ELSE AddCounters(squareAdds(b, player, x, y), rowLoop(b, player, y, x + 1))

\* The outer loop: what the rows from y on add.
RECURSIVE boardLoop(_, _, _)
boardLoop(b, player, y) ==
  IF y = BoardSize THEN [score |-> 0, pieces |-> 0, king |-> FALSE]
  ELSE AddCounters(rowLoop(b, player, y, 0), boardLoop(b, player, y + 1))

\* Object.keys(hand), in the order EMPTY_HAND lists them.
HandKeys ==
  <<"Pawn", "Lance", "Knight", "Silver", "Gold", "Bishop", "Rook", "King",
    "PromotedPawn", "PromotedLance", "PromotedKnight", "PromotedSilver", "Horse", "Dragon">>

\* The loop over the hand: what the keys from number i on add to score.
RECURSIVE handLoop(_, _)
handLoop(hand, i) ==
  IF i > Len(HandKeys) THEN 0
  ELSE LET count == hand[HandKeys[i]]
       IN (IF count > 0 THEN count * PIECE_POINTS(HandKeys[i]) ELSE 0)
            + handLoop(hand, i + 1)

\* requiredScore with one bar for both players.
requiredScore_SameForBoth(player) == 27

requiredScore(player) == IF player = "sente" THEN 28 ELSE 27

getNyugyokuState(b, h, player) ==
  LET onBoard == boardLoop(b, player, 0)
      total == onBoard.score + handLoop(h[player], 1)
  IN [score |-> total,
      piecesInZone |-> onBoard.pieces,
      kingInZone |-> onBoard.king,
      canDeclare |-> /\ onBoard.king
                     /\ onBoard.pieces >= 10
                     /\ total >= requiredScore(player),
      requiredScore |-> requiredScore(player)]

(***************************************************************************)
(* Direct calls of the two pure functions on drawn arguments               *)
(***************************************************************************)
\* Most pieces other than bishops and rooks put into the zone.
MaxMinor == 10

\* Most bishops (promoted or not) put into the zone.
MaxMajor == 1

\* Most pawns and rooks put into the hand.
MaxHandPawns == 10

MaxHandRooks == 1

MinorKinds ==
  <<"Gold", "PromotedPawn", "Silver", "PromotedSilver", "PromotedLance",
    "PromotedKnight", "Pawn">>

MajorKinds == <<"Horse", "Bishop", "Dragon">>

\* Sente's entering-king position: the king on (4, kingRow) or absent
\* (kingRow = -1), nMinor + nMajor sente pieces on ranks 1 and 2, a sente
\* lance and pawn outside the zone, gote pieces inside it.
NyuBoard(kingRow, nMinor, nMajor) ==
  [y \in Idx |-> [x \in Idx |->
     LET i == (y - 1) * BoardSize + x
     IN CASE y = kingRow /\ x = 4 -> Pc("King", "sente", FALSE)
          [] y = 0 /\ x = 8 -> Pc("Gold", "gote", FALSE)
          [] y = 0 /\ x = 0 -> Pc("Dragon", "gote", TRUE)
          [] y \in {1, 2} /\ i < nMinor ->
               LET k == MinorKinds[(i % Len(MinorKinds)) + 1]
               IN Pc(k, "sente", k \in PromotedTypes)
          [] y \in {1, 2} /\ i >= nMinor /\ i < nMinor + nMajor ->
               LET k == MajorKinds[((i - nMinor) % Len(MajorKinds)) + 1]
               IN Pc(k, "sente", k \in PromotedTypes)
          [] y = 5 /\ x = 0 -> Pc("Lance", "sente", FALSE)
          [] y = 5 /\ x = 1 -> Pc("Pawn", "sente", FALSE)
          [] y = 8 /\ x = 4 -> Pc("King", "gote", FALSE)
          [] OTHER -> Null]]

NyuPositions ==
  {Position(NyuBoard(kr, n, j), Hand({<<"Pawn", hp>>, <<"Rook", hr>>}),
            Hand({<<"Pawn", 1>>, <<"Silver", 1>>}), "sente") :
     kr \in {-1, 0, 3}, n \in (MaxMinor - 2) .. MaxMinor, j \in 0 .. MaxMajor,
     hp \in 0 .. MaxHandPawns, hr \in 0 .. MaxHandRooks}

InitFn ==
  /\ ply = 0
  /\ free = 0
  /\ move = NoMove
  /\ flag = TRUE
  /\ verdict = "none"
  /\ phase = "ready"
  /\ out = NoOut
  /\ \/ /\ board = createInitialBoard
        /\ hands = [p \in Player |-> EMPTY_HAND]
        /\ \E pt \in PieceType, fy \in Idx, ty \in Idx :
             inp = [kind |-> "promotion", pieceType |-> pt, fromY |-> fy, toY |-> ty]
        /\ turn \in Player
     \/ /\ \E pos \in NyuPositions : \E side \in Player :
             LET q == IF side = "sente" THEN pos ELSE Flip(pos)
             IN /\ board = q.board
                /\ hands = q.hands
                /\ turn = q.turn
                /\ inp = [kind |-> "nyugyoku", player |-> side]

CallPromotionStatus ==
  /\ phase = "ready"
  /\ inp.kind = "promotion"
  /\ out' = [kind |-> "promotion",
             status |-> getPromotionStatus(inp.pieceType, inp.fromY, inp.toY, turn)]
  /\ phase' = "returned"
  /\ UNCHANGED <<board, hands, turn, ply, free, move, flag, verdict, inp>>

CallNyugyokuState ==
  /\ phase = "ready"
  /\ inp.kind = "nyugyoku"
  /\ out' = [kind |-> "nyugyoku", state |-> getNyugyokuState(board, hands, inp.player)]
  /\ phase' = "returned"
  /\ UNCHANGED <<board, hands, turn, ply, free, move, flag, verdict, inp>>

NextFn == CallPromotionStatus \/ CallNyugyokuState

SpecFn == InitFn /\ [][NextFn]_vars

(***************************************************************************)
(* generateSFEN                                                            *)
(***************************************************************************)
SFEN_MAP(type) ==
  CASE type = "Pawn" -> "p" [] type = "Lance" -> "l" [] type = "Knight" -> "n"
    [] type = "Silver" -> "s" [] type = "Gold" -> "g" [] type = "Bishop" -> "b"
    [] type = "Rook" -> "r" [] type = "King" -> "k"
    [] type = "PromotedPawn" -> "+p" [] type = "PromotedLance" -> "+l"
    [] type = "PromotedKnight" -> "+n" [] type = "PromotedSilver" -> "+s"
    [] type = "Horse" -> "+b" [] type = "Dragon" -> "+r"

\* String.prototype.toUpperCase on the values of SFEN_MAP.
toUpperCase(char) ==
  CASE char = "p" -> "P" [] char = "l" -> "L" [] char = "n" -> "N"
    [] char = "s" -> "S" [] char = "g" -> "G" [] char = "b" -> "B"
    [] char = "r" -> "R" [] char = "k" -> "K"
    [] char = "+p" -> "+P" [] char = "+l" -> "+L" [] char = "+n" -> "+N"
    [] char = "+s" -> "+S" [] char = "+b" -> "+B" [] char = "+r" -> "+R"
    [] OTHER -> char

\* The inner loop of the board scan without the count written at the end
\* of a rank.
RECURSIVE sfenRow_NoTrailingCount(_, _, _, _)
sfenRow_NoTrailingCount(b, y, x, empty) ==
  IF x = BoardSize THEN ""
  ELSE LET p == b[y][x]
       IN IF p = Null THEN sfenRow_NoTrailingCount(b, y, x + 1, empty + 1)
          ELSE (IF empty > 0 THEN ToString(empty) ELSE "")
                 \o (IF p.owner = "sente" THEN toUpperCase(SFEN_MAP(p.type))
                                          ELSE SFEN_MAP(p.type))
                 \o sfenRow_NoTrailingCount(b, y, x + 1, 0)

\* The inner loop of the board scan from column x of rank y, `empty` empty
\* squares counted so far.
RECURSIVE sfenRow(_, _, _, _)
sfenRow(b, y, x, empty) ==
  IF x = BoardSize THEN (IF empty > 0 THEN ToString(empty) ELSE "")
  ELSE LET p == b[y][x]
       IN IF p = Null THEN sfenRow(b, y, x + 1, empty + 1)
          ELSE (IF empty > 0 THEN ToString(empty) ELSE "")
                 \o (IF p.owner = "sente" THEN toUpperCase(SFEN_MAP(p.type))
                                          ELSE SFEN_MAP(p.type))
                 \o sfenRow(b, y, x + 1, 0)

RECURSIVE sfenBoard(_, _)
sfenBoard(b, y) ==
  IF y = BoardSize THEN ""
  ELSE sfenRow(b, y, 0, 0) \o (IF y < BoardSize - 1 THEN "/" ELSE "")
         \o sfenBoard(b, y + 1)

\* The order of the hand loops written with the gold before the rook.
order_GoldFirst == <<"Gold", "Rook", "Bishop", "Silver", "Knight", "Lance", "Pawn">>

order == <<"Rook", "Bishop", "Gold", "Silver", "Knight", "Lance", "Pawn">>

\* One of the two hand loops, from entry i of order.
RECURSIVE sfenHand(_, _, _)
sfenHand(hand, upper, i) ==
  IF i > Len(order) THEN ""
  ELSE LET type == order[i]
           count == hand[type]
       IN (IF count > 0
           THEN (IF count > 1 THEN ToString(count) ELSE "")
                  \o (IF upper THEN toUpperCase(SFEN_MAP(type)) ELSE SFEN_MAP(type))
           ELSE "")
            \o sfenHand(hand, upper, i + 1)

generateSFEN(b, t, h) ==
  LET handStr == sfenHand(h["sente"], TRUE, 1) \o sfenHand(h["gote"], FALSE, 1)
  IN sfenBoard(b, 0) \o " " \o (IF t = "sente" THEN "b" ELSE "w")
       \o " " \o (IF handStr = "" THEN "-" ELSE handStr) \o " 1"

(***************************************************************************)
(* exportKIF: the body as the list of its lines, each with its number and  *)
(* its move column before padding; the time column is left out.  The      *)
(* Japanese words of the source are written in Latin letters.              *)
(***************************************************************************)
pieceName(piece) ==
  CASE piece = "Pawn" -> "FU" [] piece = "Lance" -> "KY" [] piece = "Knight" -> "KE"
    [] piece = "Silver" -> "GI" [] piece = "Gold" -> "KI" [] piece = "Bishop" -> "KA"
    [] piece = "Rook" -> "HI" [] piece = "King" -> "GYOKU"
    [] piece = "PromotedPawn" -> "TO" [] piece = "PromotedLance" -> "NARIKYO"
    [] piece = "PromotedKnight" -> "NARIKEI" [] piece = "PromotedSilver" -> "NARIGIN"
    [] piece = "Horse" -> "UMA" [] piece = "Dragon" -> "RYU"
    [] OTHER -> ""

kifFiles == <<"1", "2", "3", "4", "5", "6", "7", "8", "9">>

kifRanks == <<"ichi", "ni", "san", "yon", "go", "roku", "nana", "hachi", "kyu">>

\* The line of move number index + 1 of the history.
kifMoveLine(history, num) ==
  LET m == history[num]
      same == num > 1 /\ history[num - 1].to = m.to
      moveStr == (IF same THEN "DOU " \o pieceName(m.piece)
                  ELSE kifFiles[BoardSize - m.to.x] \o kifRanks[m.to.y + 1]
                         \o pieceName(m.piece))
                   \o (IF m.drop THEN "UCHI" ELSE IF m.isPromoted THEN "NARI" ELSE "")
      fromStr == IF m.drop \/ m.fromHand THEN ""
                 ELSE "(" \o ToString(BoardSize - m.from.x) \o ToString(m.from.y + 1) \o ")"
  IN [num |-> num, content |-> moveStr \o fromStr]

\* The text of the terminal line chosen from endReason.
endStr(endReason) ==
  CASE endReason = "resign" -> "TORYO"
    [] endReason = "timeout" -> "KIREMAKE"
    [] endReason = "sennichite" -> "SENNICHITE"
    [] endReason = "illegal_sennichite" -> "HANSOKUMAKE"
    [] endReason = "try" -> "NYUGYOKU-SENGEN-GACHI"
    [] endReason = "checkmate" -> "TSUMI"
    [] OTHER -> ""

\* null and the empty string are falsy.
Truthy(str) == str # "null" /\ str # ""

exportKIF(history, winner, endReason) ==
  LET moves == [i \in 1 .. Len(history) |-> kifMoveLine(history, i)]
      terminal == IF Truthy(endReason) /\ endStr(endReason) # ""
                  THEN <<[num |-> Len(history) + 1, content |-> endStr(endReason)]>>
                  ELSE <<>>
      resultStr == IF Truthy(winner)
                   THEN [kind |-> "win", moves |-> Len(history), winner |-> winner]
                   ELSE IF endReason = "sennichite"
                        THEN [kind |-> "sennichite", moves |-> Len(history)]
                        ELSE [kind |-> "none"]
  IN [body |-> moves \o terminal, resultStr |-> resultStr]

(***************************************************************************)
(* The text exports called on bounded inputs.                              *)
(***************************************************************************)
\* Largest count of one type in a hand handed to generateSFEN.
MaxSfenCount == 2

\* Sente's hands: up to two types held among the seven of order and the
\* king; gote's: up to one.
SfenSenteHands ==
  {[[EMPTY_HAND EXCEPT ![a] = n] EXCEPT ![c] = m] :
     a \in {"Rook", "Gold", "Pawn", "King"}, c \in {"Bishop", "Silver", "Knight", "Lance"},
     n \in 0 .. MaxSfenCount, m \in 0 .. MaxSfenCount}

SfenGoteHands ==
  {[EMPTY_HAND EXCEPT ![a] = n] :
     a \in {"Rook", "Bishop", "Gold", "Pawn", "Horse"}, n \in 0 .. MaxSfenCount}

SfenBoards == {createInitialBoard} \cup {pos.board : pos \in TestPositions}

\* Longest history handed to exportKIF.
MaxKifMoves == 3

\* The reasons the game_finished handler tells apart.
EndReasons ==
  {"resign", "timeout", "sennichite", "illegal_sennichite", "try", "checkmate",
   "illegal_declaration"}

InitKif ==
  /\ board = createInitialBoard
  /\ hands = [p \in Player |-> EMPTY_HAND]
  /\ turn = "sente"
  /\ ply \in 0 .. MaxKifMoves
  /\ free = 0
  /\ move = NoMove
  /\ flag = TRUE
  /\ verdict = "none"
  /\ phase = "ready"
  /\ inp = [kind |-> "kif", winner |-> "null", gameEndReason |-> "null"]
  /\ out = NoOut

InitSfen ==
  /\ board \in SfenBoards
  /\ \/ hands \in {[sente |-> hs, gote |-> hg] : hs \in SfenSenteHands, hg \in {EMPTY_HAND}}
     \/ /\ board = createInitialBoard
        /\ hands \in {[sente |-> hs, gote |-> hg] :
                        hs \in SfenSenteHands, hg \in SfenGoteHands}
  /\ turn \in Player
  /\ ply = 0
  /\ free = 0
  /\ move = NoMove
  /\ flag = TRUE
  /\ verdict = "none"
  /\ phase = "ready"
  /\ inp = [kind |-> "sfen"]
  /\ out = NoOut

CallGenerateSFEN ==
  /\ phase = "ready"
  /\ inp.kind = "sfen"
  /\ out' = [kind |-> "sfen", text |-> generateSFEN(board, turn, hands)]
  /\ phase' = "returned"
  /\ UNCHANGED <<board, hands, turn, ply, free, move, flag, verdict, inp>>

InitExport == InitSfen \/ InitKif

\* The socket handler of game_finished: data.reason missing gives null.
game_finished ==
  /\ phase = "ready"
  /\ inp.kind = "kif"
  /\ \E w \in Player \cup {"null"}, reason \in EndReasons \cup {"undefined"} :
       inp' = [inp EXCEPT !.winner = w,
                          !.gameEndReason = IF reason = "undefined" THEN "null" ELSE reason]
  /\ phase' = "finished"
  /\ UNCHANGED <<board, hands, turn, ply, free, move, flag, verdict, out>>

\* copyKIF exports the history of the room: ply moves of the book line.
copyKIF ==
  /\ phase \in {"ready", "finished"}
  /\ inp.kind = "kif"
  /\ out' = [kind |-> "kif",
             kif |-> exportKIF(SubSeq(Book, 1, ply), inp.winner, inp.gameEndReason)]
  /\ phase' = "returned"
  /\ UNCHANGED <<board, hands, turn, ply, free, move, flag, verdict, inp>>

NextExport == CallGenerateSFEN \/ game_finished \/ copyKIF

SpecExport == InitExport /\ [][NextExport]_vars

(***************************************************************************)
(* The calls isValidMove and hasLegalMoves make to each other, one call    *)
(* frame per invocation: isValidMove enters hasLegalMoves in its pawn-drop *)
(* mate test, hasLegalMoves enters isValidMove once per move it tries.     *)
(***************************************************************************)
\* Sente's king in the corner, checked along the diagonal by the bishop on
\* (5,5), its three neighbours covered: no board move answers the check, and
\* the first drop that does, a pawn on (6,6), checks gote's king on (6,5).
PosPawnBlock ==
  Position(Place({<<8, 8, "King", "sente", FALSE>>, <<5, 5, "Bishop", "gote", FALSE>>,
                  <<6, 7, "Gold", "gote", FALSE>>, <<7, 6, "Silver", "gote", FALSE>>,
                  <<6, 5, "King", "gote", FALSE>>}),
           Hand({<<"Pawn", 1>>}), EMPTY_HAND, "sente")

PawnDropPositions ==
  {PosPawnMate, PosPawnCheck, PosPawnTaken, PosMated, PosDropOnly, PosPawnBlock}

CallPositions == PawnDropPositions \cup {Flip(pos) : pos \in PawnDropPositions}

\* checkUchiFuzume as hasLegalMoves passes it, were the argument left out.
guardFlag_Default == TRUE

\* checkUchiFuzume as hasLegalMoves passes it to isValidMove.
guardFlag == FALSE

\* The moves hasLegalMoves hands to isValidMove on (b, h, t), each with its
\* place in the order of the loops: board moves by origin row, origin
\* column, target row, target column, the promoting move after the plain
\* one; then drops by key of the hand, target row, target column.
trials(b, h, t) ==
  {c \in {[key |-> (((f.y * BoardSize + f.x) * BoardSize + to.y) * BoardSize + to.x) * 2
                     + (IF pr THEN 1 ELSE 0),
            m |-> BoardMove(f, to, b[f.y][f.x].type, pr)] :
             f \in {d \in Squares : b[d.y][d.x].owner = t}, to \in Squares,
             pr \in BOOLEAN} :
     /\ b[c.m.to.y][c.m.to.x].owner # t
     /\ canPieceMoveTo(b, c.m.from, c.m.to, b[c.m.from.y][c.m.from.x], t)
     /\ c.m.isPromoted =>
          /\ c.m.piece \in PromotableTypes
          /\ IF t = "sente" THEN (c.m.from.y <= 2 \/ c.m.to.y <= 2)
                             ELSE (c.m.from.y >= 6 \/ c.m.to.y >= 6)}
  \cup
  {[key |-> 2 * BoardSize * BoardSize * BoardSize * BoardSize
              + (i * BoardSize + to.y) * BoardSize + to.x,
    m |-> DropMove(to, HandKeys[i])] :
     i \in {j \in 1 .. Len(HandKeys) : h[t][HandKeys[j]] > 0},
     to \in {d \in Squares : b[d.y][d.x] = Null}}

ValidFrame(b, h, t, m, chk) ==
  [fn |-> "isValidMove", b |-> b, h |-> h, t |-> t, m |-> m, chk |-> chk,
   pc |-> "start", todo |-> {}]

\* The frame of hasLegalMoves holds the moves its loops have yet to try.
SearchFrame(b, h, t) ==
  [fn |-> "hasLegalMoves", b |-> b, h |-> h, t |-> t, m |-> NoMove, chk |-> FALSE,
   pc |-> "start", todo |-> trials(b, h, t)]

Top == inp.stack[Len(inp.stack)]

Below == SubSeq(inp.stack, 1, Len(inp.stack) - 1)

InitCalls ==
  /\ \E pos \in CallPositions :
       /\ board = pos.board
       /\ hands = pos.hands
       /\ turn = pos.turn
  /\ ply = 0
  /\ free = 0
  /\ move = NoMove
  /\ flag = TRUE
  /\ verdict = "none"
  /\ phase = "ready"
  /\ inp = NoInp
  /\ out = NoOut

\* The moves isValidMove is called on: each piece of the side to each
\* square, and each type the side holds dropped on each square.
CallMoves(b, h, t) ==
  {BoardMove(f, to, b[f.y][f.x].type, FALSE) :
     f \in {c \in Squares : b[c.y][c.x].owner = t}, to \in Squares}
  \cup
  {DropMove(to, p) : to \in Squares, p \in {q \in PieceType : h[t][q] > 0}}

\* isValidMove is called on the position.
EnterIsValidMove ==
  /\ phase = "ready"
  /\ \E m \in CallMoves(board, hands, turn) :
       \E f \in (IF m.drop /\ m.piece = "Pawn" THEN BOOLEAN ELSE {TRUE}) :
         /\ move' = m
         /\ flag' = f
         /\ inp' = [kind |-> "calls", stack |-> <<ValidFrame(board, hands, turn, m, f)>>]
  /\ out' = [kind |-> "calls", ret |-> "none", searches |-> 0]
  /\ phase' = "running"
  /\ UNCHANGED <<board, hands, turn, ply, free, verdict>>

\* isCheckmate is called on the position: the king is in check, so
\* hasLegalMoves is entered.
EnterIsCheckmate ==
  /\ phase = "ready"
  /\ isKingInCheck(board, turn)
  /\ inp' = [kind |-> "calls", stack |-> <<SearchFrame(board, hands, turn)>>]
  /\ out' = [kind |-> "calls", ret |-> "none", searches |-> 1]
  /\ phase' = "running"
  /\ UNCHANGED <<board, hands, turn, ply, free, move, flag, verdict>>

\* isValidMove, past its other tests, reaches the pawn-drop mate test and
\* finds the opponent's king in check: it is about to call hasLegalMoves.
reachesSearch(f) ==
  /\ isValidMoveResult(f.b, f.h, f.t, f.m, FALSE) = "true"
  /\ f.chk /\ f.m.drop /\ f.m.piece = "Pawn"
  /\ isKingInCheck(applyMove(f.b, f.h, f.m, f.t).board, Other(f.t))

\* The body of isValidMove up to its call of hasLegalMoves.
StepIsValidMoveCall ==
  /\ phase = "running" /\ inp.stack # <<>>
  /\ Top.fn = "isValidMove" /\ Top.pc = "start"
  /\ reachesSearch(Top)
  /\ LET f == Top
         next == applyMove(f.b, f.h, f.m, f.t)
     IN inp' = [inp EXCEPT !.stack =
                 Append(Below, [f EXCEPT !.pc = "await"])
                   \o <<SearchFrame(next.board, next.hands, Other(f.t))>>]
  /\ out' = [out EXCEPT !.searches = @ + 1]
  /\ UNCHANGED <<board, hands, turn, ply, free, move, flag, verdict, phase>>

\* The body of isValidMove when it returns without calling hasLegalMoves.
StepIsValidMoveReturn ==
  /\ phase = "running" /\ inp.stack # <<>>
  /\ Top.fn = "isValidMove" /\ Top.pc = "start"
  /\ ~reachesSearch(Top)
  /\ inp' = [inp EXCEPT !.stack = Below]
  /\ out' = [out EXCEPT !.ret = isValidMoveResult(Top.b, Top.h, Top.t, Top.m, FALSE)]
  /\ UNCHANGED <<board, hands, turn, ply, free, move, flag, verdict, phase>>

\* hasLegalMoves has returned to isValidMove: the drop is refused when the
\* opponent has no move.
ResumeIsValidMove ==
  /\ phase = "running" /\ inp.stack # <<>>
  /\ Top.fn = "isValidMove" /\ Top.pc = "await"
  /\ inp' = [inp EXCEPT !.stack = Below]
  /\ UNCHANGED <<board, hands, turn, ply, free, move, flag, verdict, phase, out>>

\* hasLegalMoves takes the next move of its loops and calls isValidMove on
\* it, or leaves the loops and returns false.
StepHasLegalMoves ==
  /\ phase = "running" /\ inp.stack # <<>>
  /\ Top.fn = "hasLegalMoves" /\ out.ret = "none"
  /\ LET f == Top
     IN IF f.todo = {}
        THEN /\ inp' = [inp EXCEPT !.stack = Below]
             /\ out' = [out EXCEPT !.ret = "false"]
        ELSE LET c == CHOOSE d \in f.todo : \A e \in f.todo : d.key <= e.key
             IN /\ inp' = [inp EXCEPT !.stack =
                             Append(Below, [f EXCEPT !.todo = @ \ {c}])
                               \o <<ValidFrame(f.b, f.h, f.t, c.m, guardFlag)>>]
                /\ out' = out
  /\ UNCHANGED <<board, hands, turn, ply, free, move, flag, verdict, phase>>

\* isValidMove has returned to hasLegalMoves: true ends the search, false
\* continues the loops.
ResumeHasLegalMoves ==
  /\ phase = "running" /\ inp.stack # <<>>
  /\ Top.fn = "hasLegalMoves" /\ out.ret # "none"
  /\ IF out.ret = "true"
     THEN inp' = [inp EXCEPT !.stack = Below] /\ out' = out
     ELSE inp' = inp /\ out' = [out EXCEPT !.ret = "none"]
  /\ UNCHANGED <<board, hands, turn, ply, free, move, flag, verdict, phase>>

\* The outermost call has returned.
Return ==
  /\ phase = "running" /\ inp.stack = <<>>
  /\ verdict' = out.ret
  /\ phase' = "returned"
  /\ UNCHANGED <<board, hands, turn, ply, free, move, flag, inp, out>>

\* The steps of a call under way.
RunCalls ==
  \/ StepIsValidMoveCall
  \/ StepIsValidMoveReturn
  \/ ResumeIsValidMove
  \/ StepHasLegalMoves
  \/ ResumeHasLegalMoves
  \/ Return

NextCalls ==
  \/ EnterIsValidMove
  \/ EnterIsCheckmate
  \/ RunCalls

\* The calls run one after the other on one thread: a call under way that
\* can take a step takes it.
SpecCalls == InitCalls /\ [][NextCalls]_vars /\ WF_vars(RunCalls)

(***************************************************************************)
(* The entering-king dialog of GameRoom: the displayed position, the       *)
(* player's role, the dialog open or closed, the declare button            *)
(***************************************************************************)
Role == Player \cup {"audience"}

\* Sente's king on (4, kingRow), ten small pieces and a bishop in the zone;
\* gote's dragon on the king's rank or taken off the board.
DeclareBoard(kingRow, checked) ==
  [NyuBoard(kingRow, 10, 1) EXCEPT ![0][0] = IF checked THEN @ ELSE Null]

DeclarePositions ==
  LET S == {Position(DeclareBoard(kr, ch), Hand({<<"Pawn", hp>>, <<"Rook", 1>>}),
                     Hand({<<"Pawn", 1>>}), t) :
              kr \in {0, 3}, ch \in BOOLEAN, hp \in {7, 8}, t \in Player}
  IN S \cup {Flip(pos) : pos \in S}

InitDeclare ==
  /\ ply = 0
  /\ free = 0
  /\ move = NoMove
  /\ flag = TRUE
  /\ verdict = "none"
  /\ phase = "ready"
  /\ out = NoOut
  /\ \E r \in Role : inp = [kind |-> "room", myRole |-> r]
  /\ \E pos \in DeclarePositions :
       /\ board = pos.board
       /\ hands = pos.hands
       /\ turn = pos.turn

\* myState: the state of the player's own side, null for a spectator.
myState(b, h, myRole) ==
  IF myRole \in Player THEN getNyugyokuState(b, h, myRole) ELSE Null

amInCheck(b, myRole) == myRole \in Player /\ isKingInCheck(b, myRole)

\* The declare button enabled whatever amInCheck is.
declareEnabled_IgnoresCheck(state, isMyTurn, inCheck) == state.canDeclare /\ isMyTurn

\* The button's disabled attribute, negated.
declareEnabled(state, isMyTurn, inCheck) == state.canDeclare /\ isMyTurn /\ ~inCheck

\* What declareWin puts on the socket.
declareWin(myRole) ==
  IF myRole \in Player THEN [kind |-> "declare_win", player |-> myRole] ELSE NoOut

\* The button that opens the dialog.
OpenModal ==
  /\ phase \in {"ready", "declared"}
  /\ phase' = "modal"
  /\ UNCHANGED <<board, hands, turn, ply, free, move, flag, verdict, inp, out>>

\* A click on the backdrop or on the close link.
CloseModal ==
  /\ phase = "modal"
  /\ phase' = "ready"
  /\ UNCHANGED <<board, hands, turn, ply, free, move, flag, verdict, inp, out>>

\* The history or the viewed index changes and updateDisplay shows another
\* position; the dialog stays as it is.
DisplayChange ==
  /\ \E pos \in DeclarePositions :
       /\ board' = pos.board
       /\ hands' = pos.hands
       /\ turn' = pos.turn
  /\ UNCHANGED <<ply, free, move, flag, verdict, phase, inp, out>>

\* A click on the declare button, rendered for a player and enabled, and the
\* answer to the confirmation.
handleDeclareWin ==
  /\ phase = "modal"
  /\ myState(board, hands, inp.myRole) # Null
  /\ declareEnabled(myState(board, hands, inp.myRole), inp.myRole = turn,
                    amInCheck(board, inp.myRole))
  /\ \E confirmed \in BOOLEAN :
       IF confirmed
       THEN /\ out' = declareWin(inp.myRole)
            /\ phase' = "declared"
       ELSE UNCHANGED <<out, phase>>
  /\ UNCHANGED <<board, hands, turn, ply, free, move, flag, verdict, inp>>

NextDeclare == OpenModal \/ CloseModal \/ DisplayChange \/ handleDeclareWin

SpecDeclare == InitDeclare /\ [][NextDeclare]_vars

(***************************************************************************)
(* Properties of isValidMove on the judged positions (SpecJudge)           *)
(***************************************************************************)
Judged == phase = "judged"

FarRank(t) == IF t = "sente" THEN 0 ELSE 8

FarTwoRanks(t) == IF t = "sente" THEN {0, 1} ELSE {7, 8}

\* C1 (self-check rule): whenever isValidMove, called with the default flag,
\* returns true for a board move or a drop, the mover's king is not in check
\* on the board applyMove produces, and so it is not in check on the board
\* displayed once the move is played.
C1_SelfCheckRule ==
  /\ (Judged /\ flag /\ verdict = "true")
       => ~isKingInCheck(applyMove(board, hands, move, turn).board, turn)
  /\ (phase = "ready" /\ ply = 1 /\ flag) => ~isKingInCheck(board, Other(turn))

\* A king in check before the move, and a move accepted as the answer.
C1_Witness ==
  /\ Judged /\ flag /\ verdict = "true"
  /\ isKingInCheck(board, turn)

PawnDropJudged == Judged /\ move.drop /\ move.piece = "Pawn" /\ InRange(move.to)

\* The opponent is in check and has no legal move after the judged drop.
MatedByDrop ==
  LET next == applyMove(board, hands, move, turn)
  IN /\ isKingInCheck(next.board, Other(turn))
     /\ ~hasLegalMoves(next.board, next.hands, Other(turn))

\* C4 (uchi-fuzume): a pawn drop judged with checkUchiFuzume = true is
\* accepted exactly when the same drop is accepted with the flag false and
\* the position after it does not have the opponent in check with no legal
\* move (hasLegalMoves on the board and hands after the drop).  So the mating
\* drop is rejected, the drop that checks but leaves a response is accepted.
C4_UchiFuzume ==
  (PawnDropJudged /\ flag) =>
     (verdict = "true" <=>
        (isValidMove(board, hands, turn, move, FALSE) /\ ~MatedByDrop))

\* The mating pawn drop: rejected with the flag, accepted without it.
C4_Witness ==
  /\ PawnDropJudged /\ flag /\ verdict = "false"
  /\ MatedByDrop
  /\ isValidMove(board, hands, turn, move, FALSE)

OwnPawnOnFile(x) == \E y \in Idx : board[y][x] = Pc("Pawn", turn, FALSE)

OwnTokinOnFile(x) == \E y \in Idx : board[y][x] = Pc("PromotedPawn", turn, TRUE)

\* C5 (nifu): a pawn drop onto a file where the mover has an unpromoted pawn
\* is rejected on every rank; on a file where the mover has only a promoted
\* pawn the drop is accepted whenever the square is empty, a pawn is in hand,
\* the rank is not the farthest and the self-check and pawn-mate tests pass.
C5_Nifu ==
  PawnDropJudged =>
     /\ OwnPawnOnFile(move.to.x) => verdict = "false"
     /\ (OwnTokinOnFile(move.to.x) /\ ~OwnPawnOnFile(move.to.x)) =>
          (verdict = "true" <=>
             /\ board[move.to.y][move.to.x] = Null
             /\ hands[turn]["Pawn"] > 0
             /\ move.to.y # FarRank(turn)
             /\ afterMoveOk(board, hands, turn, move, flag))

\* A pawn in hand, an empty square off the pawn's own rank and off the far
\* rank, on the file of the mover's pawn: rejected.
C5_Witness ==
  /\ PawnDropJudged /\ verdict = "false"
  /\ OwnPawnOnFile(move.to.x)
  /\ ~(\E x \in Idx : board[move.to.y][x] = Pc("Pawn", turn, FALSE))
  /\ board[move.to.y][move.to.x] = Null
  /\ hands[turn]["Pawn"] > 0
  /\ move.to.y # FarRank(turn)

\* The judged move takes an unpromoted pawn, lance or knight of the mover to
\* a rank it can never leave, without promoting.
DeadEndMove ==
  /\ Judged /\ ~move.drop /\ ~move.fromHand /\ ~move.isPromoted
  /\ InRange(move.from) /\ InRange(move.to)
  /\ LET p == board[move.from.y][move.from.x]
     IN /\ p.owner = turn /\ ~p.isPromoted
        /\ \/ (p.type \in {"Pawn", "Lance"} /\ move.to.y = FarRank(turn))
           \/ (p.type = "Knight" /\ move.to.y \in FarTwoRanks(turn))

\* C6 (forced promotion enforced by legality): isValidMove rejects every
\* non-promoting board move that takes an unpromoted pawn or lance to the
\* mover's farthest rank or an unpromoted knight to the farthest two ranks.
C6_ForcedPromotionEnforced == DeadEndMove => verdict = "false"

\* C8 (no error, out of range is false): isValidMove never ends in an
\* exception, and returns false whenever a coordinate of the move (the
\* destination, or the origin of a board move) lies outside 0..8.
C8_NeverThrows ==
  Judged =>
    /\ verdict # "TypeError"
    /\ (~InRange(move.to) \/ (~move.fromHand /\ ~InRange(move.from)))
          => verdict = "false"

DropJudged == Judged /\ move.drop /\ InRange(move.to)

\* C13 (drop preconditions): a drop is rejected whenever its square holds a
\* piece of either player or the mover holds none of the dropped type, for
\* every piece type, the king and the promoted types included.
C13_DropPreconditions ==
  DropJudged =>
    ((board[move.to.y][move.to.x] # Null \/ hands[turn][move.piece] = 0)
       => verdict = "false")

\* A piece the mover holds, dropped on a square of the opponent's piece.
C13_Witness ==
  /\ DropJudged /\ verdict = "false"
  /\ hands[turn][move.piece] > 0
  /\ board[move.to.y][move.to.x].owner = Other(turn)

\* The judged drop puts a pawn or lance on the mover's farthest rank or a
\* knight on the farthest two ranks.
DeadEndDrop ==
  /\ DropJudged
  /\ \/ (move.piece \in {"Pawn", "Lance"} /\ move.to.y = FarRank(turn))
     \/ (move.piece = "Knight" /\ move.to.y \in FarTwoRanks(turn))

\* C14 (dead-piece drops): a drop of a pawn or lance onto the mover's
\* farthest rank, or of a knight onto the farthest two ranks, is rejected
\* whatever the rest of the position is.
C14_DeadPieceDrop == DeadEndDrop => verdict = "false"

\* Gote holds a knight and drops it on an empty square of row 7; nothing
\* but the rank speaks against the drop.
C14_Witness ==
  /\ DeadEndDrop /\ verdict = "false"
  /\ turn = "gote" /\ move.piece = "Knight" /\ move.to.y = 7
  /\ hands["gote"]["Knight"] > 0
  /\ board[move.to.y][move.to.x] = Null
  /\ afterMoveOk(board, hands, turn, move, flag)

(***************************************************************************)
(* Properties of hasLegalMoves and isCheckmate (SpecMate)                  *)
(***************************************************************************)
\* The candidate moves of the player t: each of its pieces to each square,
\* promoting or not, and each type it holds dropped on each square.
Candidates(b, h, t) ==
  {BoardMove(f, to, b[f.y][f.x].type, pr) :
     f \in {c \in Squares : b[c.y][c.x].owner = t}, to \in Squares, pr \in BOOLEAN}
  \cup
  {DropMove(to, p) : to \in Squares, p \in {q \in PieceType : h[t][q] > 0}}

SomeCandidateLegal(b, h, t) ==
  \E m \in Candidates(b, h, t) : isValidMove(b, h, t, m, FALSE)

\* C19 (legal-move search): hasLegalMoves returns true exactly when some
\* candidate move of the player is accepted by isValidMove called with
\* checkUchiFuzume = false; isCheckmate returns true exactly when the player
\* is in check and no candidate is accepted.
C19_LegalMoveSearch ==
  /\ out.kind = "hasLegalMoves"
       => (out.result <=> SomeCandidateLegal(board, hands, turn))
  /\ out.kind = "isCheckmate"
       => (out.result <=> (isKingInCheck(board, turn)
                             /\ ~SomeCandidateLegal(board, hands, turn)))

\* hasLegalMoves returned true on a position whose only accepted moves are
\* drops.
C19_Witness ==
  /\ out.kind = "hasLegalMoves" /\ out.result
  /\ isKingInCheck(board, turn)
  /\ \A m \in Candidates(board, hands, turn) :
       isValidMove(board, hands, turn, m, FALSE) => m.drop

SomeCandidateLegalByDefault(b, h, t) ==
  \E m \in Candidates(b, h, t) : isValidMove(b, h, t, m, TRUE)

\* isCheckmate has answered no for a player who is in check.
CheckNotMate ==
  /\ phase = "returned" /\ out.kind = "isCheckmate" /\ ~out.result
  /\ isKingInCheck(board, turn)

\* C31 as stated (checkmate agrees with default legality): whenever
\* isCheckmate is false for a player who is in check, some move of that
\* player is accepted by isValidMove with checkUchiFuzume = true.
C31_MateAgreesWithLegality ==
  CheckNotMate => SomeCandidateLegalByDefault(board, hands, turn)

\* C31 amended: the same on the positions where the king of the opponent is
\* not attacked, as in every position legal play gives to the player.
C31_MateAgreesWhenOpponentSafe ==
  (CheckNotMate /\ ~isKingInCheck(board, Other(turn)))
    => SomeCandidateLegalByDefault(board, hands, turn)

\* In check, not mate, and the only moves accepted are drops of the pawn,
\* which give check to a king that is not attacked before.
C31_Witness ==
  /\ CheckNotMate
  /\ ~isKingInCheck(board, Other(turn))
  /\ \A m \in Candidates(board, hands, turn) :
       isValidMove(board, hands, turn, m, FALSE) =>
         /\ m.drop /\ m.piece = "Pawn"
         /\ isKingInCheck(applyMove(board, hands, m, turn).board, Other(turn))

(***************************************************************************)
(* Properties of applyMove on unjudged moves (SpecApply)                   *)
(***************************************************************************)
\* Every coordinate of the move is on the board.
ShapeValid(m) == InRange(m.to) /\ (m.fromHand \/ InRange(m.from))

WellFormedBoard(b) ==
  /\ DOMAIN b = Idx
  /\ \A y \in Idx :
       /\ DOMAIN b[y] = Idx
       /\ \A x \in Idx :
            \/ b[y][x] = Null
            \/ /\ b[y][x].type \in PieceType
               /\ b[y][x].owner \in Player
               /\ b[y][x].isPromoted \in BOOLEAN

\* C18 (applyMove total on in-range input): for a move with all coordinates
\* in 0..8, legal or not, applyMove returns without error a 9x9 board with a
\* piece or nothing on every square and the turn of the other player; when
\* the origin of a board move is empty, board and hands are returned as
\* they were.
C18_ApplyTotal ==
  [][(phase = "ready" /\ ShapeValid(move')) =>
       /\ phase' = "replayed"
       /\ WellFormedBoard(board')
       /\ turn' = Other(turn)
       /\ (~move'.drop /\ board[move'.from.y][move'.from.x] = Null)
            => (board' = board /\ hands' = hands)]_vars

\* A move from the empty square (4,4) onto a piece of the mover: nothing but
\* the turn has changed.
C18_Witness ==
  /\ phase = "replayed"
  /\ ~move.drop /\ move.from = Sq(4, 4)
  /\ board[4][4] = Null
  /\ InRange(move.to)
  /\ board[move.to.y][move.to.x] # Null
  /\ board[move.to.y][move.to.x].owner = Other(turn)
  /\ hands = [p \in Player |-> EMPTY_HAND]

(***************************************************************************)
(* Properties of the positions of the game (Spec)                          *)
(***************************************************************************)
\* The base kind of a piece type, promoted forms counted as their base.
BaseOf(t) ==
  CASE t = "PromotedPawn" -> "Pawn"
    [] t = "PromotedLance" -> "Lance"
    [] t = "PromotedKnight" -> "Knight"
    [] t = "PromotedSilver" -> "Silver"
    [] t = "Horse" -> "Bishop"
    [] t = "Dragon" -> "Rook"
    [] OTHER -> t

\* The squares of the board b that hold a piece of player p.
OwnSquares(b, p) == {c \in Squares : b[c.y][c.x].owner = p}

\* Pieces of kind k that player p has on the board b and in the hand h, for
\* every player and kind (the player's squares are enumerated once).
Census(b, h) ==
  [p \in Player |->
     LET S == {c : c \in OwnSquares(b, p)}
     IN [k \in BaseTypes |->
           Cardinality({c \in S : BaseOf(b[c.y][c.x].type) = k}) + h[p][k]]]

InitialTotal(k) ==
  CASE k = "Pawn" -> 18
    [] k \in {"Bishop", "Rook", "King"} -> 2
    [] OTHER -> 4

TotalsKept(b, h) ==
  LET S == {c : c \in {d \in Squares : b[d.y][d.x] # Null}}
  IN \A k \in BaseTypes :
       Cardinality({c \in S : BaseOf(b[c.y][c.x].type) = k})
         + h["sente"][k] + h["gote"][k] = InitialTotal(k)

\* The step from the unprimed to the primed position is a capture by move'.
IsCapture == ~move'.drop /\ board[move'.to.y][move'.to.x] # Null

MoveStepKept ==
  IF IsCapture
  THEN LET k == BaseOf(board[move'.to.y][move'.to.x].type)
       IN /\ hands'[turn][k] = hands[turn][k] + 1
          /\ Census(board', hands') =
               [Census(board, hands) EXCEPT ![Other(turn)][k] = @ - 1, ![turn][k] = @ + 1]
  ELSE Census(board', hands') = Census(board, hands)

\* C2 (conservation): in the initial position and after every accepted move,
\* each base kind has its initial number of pieces on the board (promoted
\* forms counted as their base) and in the two hands together; a move that
\* captures nothing leaves every player's count of every kind unchanged, and
\* a capture moves one piece of the captured kind from the victim's count to
\* the mover's hand.
C2_Conservation ==
  /\ []TotalsKept(board, hands)
  /\ [][MoveStepKept]_vars

\* The end of the book line: a promoted bishop was captured, a bishop was
\* dropped and captured again.
C2_Witness ==
  /\ ply = Len(Book) /\ free = 0
  /\ hands["gote"]["Bishop"] = 0
  /\ hands["sente"]["Bishop"] = 2

Kings(p) == {c \in Squares : board[c.y][c.x].type = "King" /\ board[c.y][c.x].owner = p}

\* C3 (single king): in every position of the game each player has exactly
\* one king on the board.
C3_SingleKing == \A p \in Player : Cardinality(Kings(p)) = 1

\* The check by the dropped bishop has been answered by capturing it.
C3_Witness ==
  /\ ply = Len(Book) /\ free = 0
  /\ move = Book[Len(Book)]
  /\ \A p \in Player : Cardinality(Kings(p)) = 1

OpeningMove == BoardMove(Sq(4, 6), Sq(4, 5), "Pawn", FALSE)

\* C9 (opening move): in the initial position isValidMove accepts the pawn
\* move (4,6) -> (4,5) without promotion, and once it is played (4,6) is
\* empty, (4,5) holds an unpromoted sente pawn, every other square and both
\* hands are as before, and the turn is gote's.
C9_OpeningMove ==
  /\ ply = 0 => isValidMove(board, hands, turn, OpeningMove, TRUE)
  /\ (ply = 1 /\ move = OpeningMove) =>
       /\ board[6][4] = Null
       /\ board[5][4] = Pc("Pawn", "sente", FALSE)
       /\ \A c \in Squares \ {Sq(4, 6), Sq(4, 5)} :
            board[c.y][c.x] = createInitialBoard[c.y][c.x]
       /\ hands = [p \in Player |-> EMPTY_HAND]
       /\ turn = "gote"

C9_Witness == ply = 1 /\ move = OpeningMove /\ turn = "gote" /\ board[6][4] = Null

\* C15 (hand well-formedness): in every position of the game every hand
\* count of both players is at least 0, and the counts of the king and of
\* the six promoted types are 0.
C15_HandsWellFormed ==
  \A p \in Player : \A t \in PieceType :
    /\ hands[p][t] >= 0
    /\ (t = "King" \/ t \in PromotedTypes) => hands[p][t] = 0

\* The promoted bishop has been captured and is held as a bishop.
C15_Witness ==
  /\ ply = 4 /\ free = 0
  /\ move = Book[4]
  /\ hands["gote"]["Bishop"] = 1 /\ hands["gote"]["Horse"] = 0

\* C16 (promotion encoding): in every position of the game, whatever the
\* promote flags of the moves were, a piece on the board has isPromoted true
\* exactly when its type is one of the six promoted types; no gold and no
\* king has isPromoted true.
C16_PromotionEncoding ==
  \A c \in Squares :
    LET p == board[c.y][c.x]
    IN p # Null => (p.isPromoted <=> p.type \in PromotedTypes)

(***************************************************************************)
(* Properties of the positions of the pawn line (SpecPawns)                *)
(***************************************************************************)
UnpromotedPawns(p, x) == {y \in Idx : board[y][x] = Pc("Pawn", p, FALSE)}

\* C17 (nifu invariant): in every position of the game no player has two
\* unpromoted pawns on one file.
C17_NoTwoPawns ==
  \A p \in Player : \A x \in Idx :
    Cardinality({y \in Idx : board[y][x].owner = p /\ board[y][x].type = "Pawn"}) <= 1

\* Both players have dropped the captured pawn on the file they had lost
\* their pawn on.
C17_Witness ==
  /\ ply = Len(PawnBook) /\ free = 0
  /\ move = DropMove(Sq(7, 6), "Pawn")
  /\ UnpromotedPawns("sente", 7) = {6}
  /\ UnpromotedPawns("gote", 7) = {2}

(***************************************************************************)
(* Properties of the pure functions (SpecFn)                               *)
(***************************************************************************)
PromotionReturned == phase = "returned" /\ out.kind = "promotion"

\* C7 (must promote): getPromotionStatus returns 'must' exactly for a pawn
\* or lance arriving on the mover's farthest rank and a knight arriving on
\* the farthest two ranks, whatever fromY is.
C7_MustPromote ==
  PromotionReturned =>
    (out.status = "must" <=>
       \/ (inp.pieceType \in {"Pawn", "Lance"} /\ inp.toY = FarRank(turn))
       \/ (inp.pieceType = "Knight" /\ inp.toY \in FarTwoRanks(turn)))

\* A knight arriving on the second farthest rank from outside the zone.
C7_Witness ==
  /\ PromotionReturned /\ out.status = "must"
  /\ inp.pieceType = "Knight" /\ turn = "gote" /\ inp.toY = 7 /\ inp.fromY = 5

ZoneRanks(t) == IF t = "sente" THEN 0 .. 2 ELSE 6 .. 8

\* C21 (can or none): getPromotionStatus returns 'none' for Gold, King and
\* the six promoted types, whatever the ranks and the mover; for the other
\* types a result that is not 'must' is 'can' exactly when fromY or toY lies
\* in the mover's promotion zone (rows 0-2 for sente, 6-8 for gote), and
\* 'none' otherwise.
C21_CanOrNone ==
  PromotionReturned =>
    IF inp.pieceType \in {"Gold", "King"} \cup PromotedTypes
    THEN out.status = "none"
    ELSE out.status # "must" =>
           /\ out.status \in {"can", "none"}
           /\ out.status = "can" <=>
                (inp.fromY \in ZoneRanks(turn) \/ inp.toY \in ZoneRanks(turn))

\* A gote silver leaving the zone: from rank 6 to rank 5.
C21_Witness ==
  /\ PromotionReturned /\ out.status = "can"
  /\ inp.pieceType = "Silver" /\ turn = "gote" /\ inp.fromY = 6 /\ inp.toY = 5

NyugyokuReturned == phase = "returned" /\ out.kind = "nyugyoku"

KingInOwnZone(p) ==
  \E c \in Squares :
    /\ board[c.y][c.x] = Pc("King", p, FALSE)
    /\ IF p = "sente" THEN c.y \in 0 .. 2 ELSE c.y \in 6 .. 8

\* C10 (entering-king eligibility): canDeclare is true exactly when the
\* player's king stands in the player's zone, piecesInZone >= 10 and
\* score >= requiredScore, which is 28 for sente and 27 for gote.
C10_CanDeclare ==
  NyugyokuReturned =>
    /\ out.state.requiredScore = (IF inp.player = "sente" THEN 28 ELSE 27)
    /\ out.state.canDeclare <=>
         /\ KingInOwnZone(inp.player)
         /\ out.state.piecesInZone >= 10
         /\ out.state.score >= (IF inp.player = "sente" THEN 28 ELSE 27)

\* Sente with the king in the zone, ten pieces there and 27 points: refused.
C10_Witness ==
  /\ NyugyokuReturned /\ inp.player = "sente"
  /\ KingInOwnZone("sente")
  /\ out.state.piecesInZone = 10
  /\ out.state.score = 27
  /\ ~out.state.canDeclare

\* The player's pieces other than the king on the zone's squares of the
\* board, of the given types.
InZone(p, types) ==
  {c \in Squares :
     /\ board[c.y][c.x].owner = p
     /\ board[c.y][c.x].type \in types
     /\ IF p = "sente" THEN c.y \in 0 .. 2 ELSE c.y \in 6 .. 8}

FivePointTypes == {"Bishop", "Horse", "Rook", "Dragon"}

OnePointTypes == PieceType \ (FivePointTypes \cup {"King"})

\* C11 (entering-king scoring): score is 5 for every bishop, horse, rook and
\* dragon and 1 for every other piece except the king, summed over the
\* player's pieces inside the zone and the pieces in the player's hand;
\* piecesInZone counts the player's pieces other than the king inside the
\* zone and nothing else.
C11_Scoring ==
  NyugyokuReturned =>
    LET p == inp.player
        h == hands[p]
    IN /\ out.state.piecesInZone = Cardinality(InZone(p, PieceType \ {"King"}))
       /\ out.state.score =
            5 * Cardinality(InZone(p, FivePointTypes))
            + Cardinality(InZone(p, OnePointTypes))
            + 5 * (h["Bishop"] + h["Horse"] + h["Rook"] + h["Dragon"])
            + h["Pawn"] + h["Lance"] + h["Knight"] + h["Silver"] + h["Gold"]
            + h["PromotedPawn"] + h["PromotedLance"] + h["PromotedKnight"]
            + h["PromotedSilver"]

\* Gote with pieces outside the zone, a rook and pawns in hand: 9 pieces and
\* 9 points in the zone, 8 points in hand.
C11_Witness ==
  /\ NyugyokuReturned /\ inp.player = "gote"
  /\ hands["gote"]["Rook"] = 1 /\ hands["gote"]["Pawn"] = 3
  /\ board[3][8] = Pc("Lance", "gote", FALSE)
  /\ out.state.piecesInZone = 9
  /\ out.state.score = 17

(***************************************************************************)
(* Properties of the calls between isValidMove and hasLegalMoves           *)
(* (SpecCalls)                                                             *)
(***************************************************************************)
Running == phase = "running"

SearchFrames == {i \in 1 .. Len(inp.stack) : inp.stack[i].fn = "hasLegalMoves"}

\* No frame of isValidMove entered from hasLegalMoves has a frame of
\* hasLegalMoves above it.
GuardKept ==
  \A i \in SearchFrames : \A j \in SearchFrames : i = j

\* C20 (recursion guard and termination): every call of isValidMove
\* returns; a call with checkUchiFuzume = true enters hasLegalMoves at most
\* once; no isValidMove called from inside hasLegalMoves enters
\* hasLegalMoves again, so the nesting isValidMove -> hasLegalMoves ->
\* isValidMove is the deepest there is.
C20_RecursionGuard ==
  /\ [](inp.kind = "calls" =>
          /\ out.searches <= 1
          /\ GuardKept
          /\ Len(inp.stack) <= 3)
  /\ (Running ~> (phase = "returned"))

\* A pawn drop judged with checkUchiFuzume = true has returned false after
\* one search of the opponent's moves that tried moves and found none.
C20_Witness ==
  /\ phase = "returned"
  /\ inp.kind = "calls"
  /\ flag /\ move.drop /\ move.piece = "Pawn"
  /\ out.searches = 1
  /\ verdict = "false"

(***************************************************************************)
(* Properties of the text exports (SpecExport)                             *)
(***************************************************************************)
SfenReturned == phase = "returned" /\ out.kind = "sfen"

\* C22 (SFEN of the initial position): generateSFEN of the standard initial
\* board, sente to move, both hands empty, is exactly
\* lnsgkgsnl/1r5b1/ppppppppp/9/9/9/PPPPPPPPP/1B5R1/LNSGKGSNL b - 1.
C22_InitialSfen ==
  (/\ SfenReturned
   /\ board = createInitialBoard
   /\ turn = "sente"
   /\ hands = [p \in Player |-> EMPTY_HAND])
    => out.text = "lnsgkgsnl/1r5b1/ppppppppp/9/9/9/PPPPPPPPP/1B5R1/LNSGKGSNL b - 1"

\* generateSFEN has returned on the initial position.
C22_Witness ==
  /\ SfenReturned
  /\ board = createInitialBoard
  /\ turn = "sente"
  /\ hands = [p \in Player |-> EMPTY_HAND]
  /\ out.text # ""

\* The block of one type in the hand field: nothing, the letter, or the
\* count and the letter.
HandBlock(n, letter) ==
  IF n = 0 THEN "" ELSE IF n = 1 THEN letter ELSE ToString(n) \o letter

HandField(h) ==
  HandBlock(h["sente"]["Rook"], "R") \o HandBlock(h["sente"]["Bishop"], "B")
    \o HandBlock(h["sente"]["Gold"], "G") \o HandBlock(h["sente"]["Silver"], "S")
    \o HandBlock(h["sente"]["Knight"], "N") \o HandBlock(h["sente"]["Lance"], "L")
    \o HandBlock(h["sente"]["Pawn"], "P")
    \o HandBlock(h["gote"]["Rook"], "r") \o HandBlock(h["gote"]["Bishop"], "b")
    \o HandBlock(h["gote"]["Gold"], "g") \o HandBlock(h["gote"]["Silver"], "s")
    \o HandBlock(h["gote"]["Knight"], "n") \o HandBlock(h["gote"]["Lance"], "l")
    \o HandBlock(h["gote"]["Pawn"], "p")

SevenTypes == {"Rook", "Bishop", "Gold", "Silver", "Knight", "Lance", "Pawn"}

NothingHeld(h) == \A p \in Player : \A k \in SevenTypes : h[p][k] = 0

\* C23 (SFEN hand field): after the board and the turn, generateSFEN writes
\* sente's held pieces in capitals, then gote's in small letters, each in
\* the order Rook, Bishop, Gold, Silver, Knight, Lance, Pawn, a count of 0
\* as nothing, of 1 as the letter, of n > 1 as n and the letter; the field
\* is - exactly when neither hand holds one of the seven types; the last
\* field is the literal 1.
C23_HandField ==
  SfenReturned =>
    LET field == IF NothingHeld(hands) THEN "-" ELSE HandField(hands)
    IN /\ out.text = sfenBoard(board, 0) \o " " \o (IF turn = "sente" THEN "b" ELSE "w")
                       \o " " \o field \o " 1"
       /\ (HandField(hands) = "") <=> NothingHeld(hands)

\* Sente holds two rooks and a lance, gote a pawn.
C23_Witness ==
  /\ SfenReturned
  /\ hands["sente"]["Rook"] = 2 /\ hands["sente"]["Lance"] = 1
  /\ hands["gote"]["Pawn"] = 1
  /\ out.text = sfenBoard(board, 0) \o " " \o (IF turn = "sente" THEN "b" ELSE "w")
                   \o " 2RLp 1"

KifReturned == phase = "returned" /\ out.kind = "kif"

\* C24 (KIF terminal line): whenever endReason is set, exportKIF appends
\* exactly one line after the lines of the moves, numbered history.length +
\* 1, for each of resign, timeout, sennichite, illegal_sennichite, try,
\* checkmate and illegal_declaration.
C24_TerminalLine ==
  (KifReturned /\ inp.gameEndReason \in EndReasons) =>
    /\ Len(out.kif.body) = ply + 1
    /\ out.kif.body[ply + 1].num = ply + 1

(***************************************************************************)
(* Properties of the effect of applyMove (SpecApply)                       *)
(***************************************************************************)
\* A board move with coordinates on the board whose origin holds a piece.
MovesPiece(b, m) ==
  /\ ~m.drop /\ InRange(m.from) /\ InRange(m.to)
  /\ b[m.from.y][m.from.x] # Null

Occupied(b) == {c \in Squares : b[c.y][c.x] # Null}

\* C25 (capture): when applyMove carries out a board move whose destination
\* holds a piece of the opponent of the mover, the mover's hand count of the
\* base type of that piece grows by exactly 1, no other hand entry of either
\* player changes and the captured piece is no longer on the board; a move
\* to an empty square changes no hand entry.
C25_Capture ==
  [][(phase = "ready" /\ phase' = "replayed" /\ MovesPiece(board, move')) =>
       LET target == board[move'.to.y][move'.to.x]
       IN /\ (target # Null /\ target.owner = Other(turn)) =>
               /\ hands' = [hands EXCEPT ![turn][BaseOf(target.type)] = @ + 1]
               /\ Occupied(board') = Occupied(board) \ {move'.from}
               /\ move'.to # move'.from =>
                    board'[move'.to.y][move'.to.x].owner = board[move'.from.y][move'.from.x].owner
          /\ target = Null => hands' = hands]_vars

\* Sente has taken the gote horse on (1,5) and holds a bishop for it.
C25_Witness ==
  /\ phase = "replayed"
  /\ ~move.drop /\ move.to = Sq(1, 5)
  /\ turn = "gote"
  /\ hands["sente"] = [Hand({<<"Silver", 1>>, <<"Pawn", 1>>}) EXCEPT !["Bishop"] = 1]
  /\ hands["gote"] = EMPTY_HAND
  /\ \A c \in Squares : board[c.y][c.x].type # "Horse"

Reaching(b, p, c) ==
  {a \in Squares : /\ b[a.y][a.x] # Null
                   /\ b[a.y][a.x].owner = p
                   /\ canPieceMoveTo(b, a, c, b[a.y][a.x], p)}

\* C27 (check detection): isKingInCheck is false when the player has no King
\* on the board, and otherwise is true exactly when at least one piece of
\* the opponent satisfies canPieceMoveTo from its square to the square of
\* the king, the opponent being the mover.  (A board on which a second king
\* of the player has been dropped is left aside.)
C27_CheckDetection ==
  (phase = "returned" /\ out.kind = "isKingInCheck") =>
    LET kings == {c \in Squares : /\ board[c.y][c.x].type = "King"
                                  /\ board[c.y][c.x].owner = out.player}
    IN /\ kings = {} => out.result = FALSE
       /\ \A k \in kings :
            kings = {k} => out.result = (Reaching(board, Other(out.player), k) # {})

\* The king asked about stands on the board and is found in check.
C27_Witness ==
  /\ phase = "returned" /\ out.kind = "isKingInCheck"
  /\ \E c \in Squares : board[c.y][c.x] = Pc("King", out.player, FALSE)
  /\ \E c \in Squares : board[c.y][c.x] = Pc("King", Other(out.player), FALSE)
  /\ out.result = TRUE

(***************************************************************************)
(* Properties of the sliding pieces (SpecReach)                            *)
(***************************************************************************)
\* The squares strictly between a and c on the straight line that joins them.
Between(a, c) ==
  {q \in Squares :
     \E k \in 1 .. (Cheb(a, c) - 1) :
       /\ q.x = a.x + k * Sign(c.x - a.x)
       /\ q.y = a.y + k * Sign(c.y - a.y)}

PathClear(b, a, c) == \A q \in Between(a, c) : b[q.y][q.x] = Null

ReachReturned == phase = "returned" /\ out.kind = "canPieceMoveTo"

\* C28 (sliding pieces never jump): canPieceMoveTo for an unpromoted Lance is
\* true exactly when the destination is straight ahead and every square
\* strictly between is empty; for a Bishop or Horse and a destination on a
\* diagonal, and for a Rook or Dragon and a destination on the rank or file,
\* it is true exactly when every square strictly between is empty, and an
\* unpromoted Bishop or Rook reaches nothing off those lines; what stands on
\* the destination never matters.
C28_NoJump ==
  ReachReturned =>
    LET from == inp.from
        to == out.to
        p == board[from.y][from.x]
        dx == to.x - from.x
        dy == to.y - from.y
        ahead == IF p.owner = "sente" THEN dy < 0 ELSE dy > 0
    IN /\ p.type = "Lance" =>
            out.result = (dx = 0 /\ ahead /\ PathClear(board, from, to))
       /\ (p.type \in {"Bishop", "Horse"} /\ Abs(dx) = Abs(dy)) =>
            out.result = PathClear(board, from, to)
       /\ (p.type = "Bishop" /\ Abs(dx) # Abs(dy)) => out.result = FALSE
       /\ (p.type \in {"Rook", "Dragon"} /\ (dx = 0 \/ dy = 0)) =>
            out.result = PathClear(board, from, to)
       /\ (p.type = "Rook" /\ dx # 0 /\ dy # 0) => out.result = FALSE

\* The rook on (4,4) is asked about (4,1): (4,3) is empty, a piece stands on
\* (4,2) and another on the destination, and the answer is no.
C28_Witness ==
  /\ ReachReturned
  /\ inp.from = Sq(4, 4) /\ board[4][4].type = "Rook"
  /\ out.to = Sq(4, 1)
  /\ board[3][4] = Null /\ board[2][4] # Null
  /\ out.result = FALSE

(***************************************************************************)
(* Properties of isValidMove and the promotion flag (SpecJudge)            *)
(***************************************************************************)
\* C29 (legality ignores the promotion flag): for a board move isValidMove
\* ends the same way with isPromoted true and with isPromoted false, on every
\* board, hands and mover.
C29_PromoteFlagIgnored ==
  (phase = "judged" /\ ~move.drop) =>
    verdict = isValidMoveResult(board, hands, turn,
                                [move EXCEPT !.isPromoted = ~move.isPromoted], flag)

\* The sente gold going from (3,8) to (3,7) with isPromoted true, far from
\* the promotion zone, is accepted.
C29_Witness ==
  /\ phase = "judged"
  /\ board = PosPinned.board /\ turn = "sente"
  /\ move = BoardMove(Sq(3, 8), Sq(3, 7), "Gold", TRUE)
  /\ verdict = "true"

(***************************************************************************)
(* The click handlers of the board in the analysis room, where one user    *)
(* moves both sides: handleSquareClick, handleHandPieceClick and           *)
(* handlePromotionChoice.  The promotion dialog lies over the board with   *)
(* pointer-events-none, so the board and the hands stay clickable while a  *)
(* promotionCandidate waits.  inp holds selectedSquare, selectedHandPiece  *)
(* and promotionCandidate, out the place reached in the line of clicks.    *)
(***************************************************************************)
NoSquare == Sq(-1, -1)

NoCandidate == [set |-> FALSE, move |-> NoMove]

\* processMove in the analysis room: the move joins the history and
\* updateDisplay replays it, which applies it to the position displayed.
processMove(m) ==
  LET res == applyMove(board, hands, m, turn)
  IN /\ board' = res.board
     /\ hands' = res.hands
     /\ turn' = res.turn
     /\ move' = m
     /\ ply' = ply + 1

noMove == UNCHANGED <<board, hands, turn, move, ply>>

handleSquareClick(coords) ==
  LET clickedPiece == board[coords.y][coords.x]
  IN IF clickedPiece.owner = turn
     THEN /\ inp' = [inp EXCEPT !.selectedSquare = coords, !.selectedHandPiece = "null"]
          /\ noMove
     ELSE IF inp.selectedSquare # NoSquare
     THEN LET piece == board[inp.selectedSquare.y][inp.selectedSquare.x]
              status == getPromotionStatus(piece.type, inp.selectedSquare.y, coords.y, turn)
              baseMove == BoardMove(inp.selectedSquare, coords, piece.type, FALSE)
          IN IF piece = Null THEN noMove /\ UNCHANGED inp
             ELSE IF ~isValidMove(board, hands, turn, baseMove, TRUE)
             THEN noMove /\ UNCHANGED inp
             ELSE IF status = "must"
             THEN /\ processMove([baseMove EXCEPT !.isPromoted = TRUE])
                  /\ inp' = [inp EXCEPT !.selectedSquare = NoSquare]
             ELSE IF status = "can"
             THEN /\ noMove
                  /\ inp' = [inp EXCEPT !.promotionCandidate = [set |-> TRUE, move |-> baseMove],
                                         !.selectedSquare = NoSquare]
             ELSE /\ processMove(baseMove)
                  /\ inp' = [inp EXCEPT !.selectedSquare = NoSquare]
     ELSE IF inp.selectedHandPiece # "null"
     THEN IF clickedPiece = Null
          THEN LET m == DropMove(coords, inp.selectedHandPiece)
               IN /\ IF isValidMove(board, hands, turn, m, TRUE) THEN processMove(m) ELSE noMove
                  /\ inp' = [inp EXCEPT !.selectedHandPiece = "null"]
          ELSE noMove /\ UNCHANGED inp
     ELSE noMove /\ UNCHANGED inp

\* Komadai shows the types held, and the handler ignores the hand of the
\* player who is not to move.
handleHandPieceClick(piece, owner) ==
  /\ hands[owner][piece] > 0
  /\ noMove
  /\ IF owner # turn THEN UNCHANGED inp
     ELSE inp' = [inp EXCEPT !.selectedHandPiece = piece, !.selectedSquare = NoSquare]

handlePromotionChoice(promote) ==
  IF ~inp.promotionCandidate.set THEN noMove /\ UNCHANGED inp
  ELSE /\ processMove([inp.promotionCandidate.move EXCEPT !.isPromoted = promote])
       /\ inp' = [inp EXCEPT !.promotionCandidate = NoCandidate]

square(x, y) == [e |-> "square", c |-> Sq(x, y), piece |-> "null", owner |-> "none", promote |-> FALSE]

hand(piece, owner) ==
  [e |-> "hand", c |-> NoSquare, piece |-> piece, owner |-> owner, promote |-> FALSE]

choice(promote) ==
  [e |-> "choice", c |-> NoSquare, piece |-> "null", owner |-> "none", promote |-> promote]

Handle(ev) ==
  CASE ev.e = "square" -> handleSquareClick(ev.c)
    [] ev.e = "hand" -> handleHandPieceClick(ev.piece, ev.owner)
    [] OTHER -> handlePromotionChoice(ev.promote)

\* The clicks the exploration follows: gote's knight comes out to (5,4) and
\* is taken by a pawn; sente asks for bishop takes bishop on (7,1) and leaves
\* the dialog open, moves the bishop to (4,4), drops the knight on the
\* square the bishop left, and then answers the dialog.
ClickBook ==
  <<square(2, 6), square(2, 5), square(6, 2), square(6, 3),
    square(5, 6), square(5, 5), square(7, 0), square(6, 2),
    square(8, 6), square(8, 5), square(6, 2), square(5, 4),
    square(5, 5), square(5, 4), square(0, 2), square(0, 3),
    square(1, 7), square(7, 1),
    square(1, 7), square(4, 4), square(0, 3), square(0, 4),
    hand("Knight", "sente"), square(1, 7),
    choice(FALSE)>>

\* Clicks tried off the line.
MaxFreeClicks == 1

BookSquares == {ClickBook[i].c : i \in {j \in 1 .. Len(ClickBook) : ClickBook[j].e = "square"}}

FreeEvents ==
  {[e |-> "square", c |-> c, piece |-> "null", owner |-> "none", promote |-> FALSE] :
     c \in BookSquares}
  \cup {hand(t, o) : t \in BaseTypes, o \in Player}
  \cup {choice(pr) : pr \in BOOLEAN}

InitClick ==
  /\ board = createInitialBoard
  /\ hands = [p \in Player |-> EMPTY_HAND]
  /\ turn = "sente"
  /\ ply = 0
  /\ free = 0
  /\ move = NoMove
  /\ flag = TRUE
  /\ verdict = "none"
  /\ phase = "ready"
  /\ inp = [kind |-> "click", selectedSquare |-> NoSquare,
            selectedHandPiece |-> "null", promotionCandidate |-> NoCandidate]
  /\ out = [kind |-> "click", at |-> 0]

\* The next click of the line.
BookClick ==
  /\ inp.kind = "click"
  /\ out.at < Len(ClickBook)
  /\ Handle(ClickBook[out.at + 1])
  /\ out' = [out EXCEPT !.at = @ + 1]
  /\ UNCHANGED <<free, flag, verdict, phase>>

FreeClick ==
  /\ inp.kind = "click"
  /\ free < MaxFreeClicks
  /\ \E ev \in FreeEvents : Handle(ev)
  /\ free' = free + 1
  /\ UNCHANGED <<flag, verdict, phase, out>>

NextClick == BookClick \/ FreeClick

SpecClick == InitClick /\ [][NextClick]_vars

(***************************************************************************)
(* Properties of the click handlers (SpecClick)                            *)
(***************************************************************************)
\* The piece p can never move again on rank y.
Dead(p, y) ==
  /\ ~p.isPromoted
  /\ \/ p.type \in {"Pawn", "Lance"} /\ y = (IF p.owner = "sente" THEN 0 ELSE 8)
     \/ p.type = "Knight" /\ y \in (IF p.owner = "sente" THEN {0, 1} ELSE {7, 8})

\* C30 (no dead pieces through the click flow): in every position reached
\* from the initial position by moves that the click handlers produce, no
\* unpromoted Pawn or Lance stands on the farthest rank of its owner and no
\* unpromoted Knight on the farthest two ranks.
C30_NoDeadPieces ==
  inp.kind = "click" =>
    \A c \in Squares : board[c.y][c.x] # Null => ~Dead(board[c.y][c.x], c.y)

\* The square c seen from the other side of the board.
Rotate(c) == Sq(BoardSize - 1 - c.x, BoardSize - 1 - c.y)

\* The move m with its coordinates turned by 180 degrees.
RotateMove(m) ==
  IF m.fromHand THEN [m EXCEPT !.to = Rotate(m.to)]
  ELSE [m EXCEPT !.to = Rotate(m.to), !.from = Rotate(m.from)]

\* C32 (colour symmetry of legality): isValidMove ends the same way for the
\* position and move as for the board turned by 180 degrees with the owners
\* exchanged, the hands exchanged, the other player to move and the move
\* turned with the board.
C32_ColourSymmetry ==
  phase = "judged" =>
    LET q == Flip([board |-> board, hands |-> hands, turn |-> turn])
    IN verdict = isValidMoveResult(q.board, q.hands, q.turn, RotateMove(move), flag)

\* Sente's pawn on (2,5) steps forward: accepted, as is gote's pawn stepping
\* from (6,3) to (6,4) on the board turned round.
C32_Witness ==
  /\ phase = "judged"
  /\ board = PosFiles.board /\ turn = "sente"
  /\ move = BoardMove(Sq(2, 5), Sq(2, 4), "Pawn", FALSE)
  /\ verdict = "true"
  /\ isValidMove(Flip(PosFiles).board, Flip(PosFiles).hands, "gote",
                 BoardMove(Sq(6, 3), Sq(6, 4), "Pawn", FALSE), TRUE)

\* C33 (no null move): isValidMove rejects every board move whose
\* destination is its origin, whatever piece stands there.
C33_NoNullMove ==
  (phase = "judged" /\ ~move.drop /\ move.to = move.from) => verdict # "true"

\* The dragon on (7,7) is asked to move to (7,7): canPieceMoveTo allows the
\* step of length zero, isValidMove answers false.
C33_Witness ==
  /\ phase = "judged"
  /\ board = PosInCheck.board /\ turn = "sente"
  /\ ~move.drop /\ move.from = Sq(7, 7) /\ move.to = Sq(7, 7)
  /\ canPieceMoveTo(board, move.from, move.to, board[7][7], turn)
  /\ verdict = "false"

(***************************************************************************)
(* Properties of the entering-king dialog (SpecDeclare)                    *)
(***************************************************************************)
\* The step on which declare_win is sent.
DeclareSent == phase = "modal" /\ phase' = "declared"

\* C12 (declaration gating): declare_win is sent only by a player, for the
\* player's own side, and only when in the displayed position that side's
\* canDeclare is true, it is that side's turn and its king is not in check.
C12_DeclareGated ==
  [][DeclareSent =>
       /\ inp.myRole \in Player
       /\ out' = [kind |-> "declare_win", player |-> inp.myRole]
       /\ getNyugyokuState(board, hands, inp.myRole).canDeclare
       /\ turn = inp.myRole
       /\ ~isKingInCheck(board, inp.myRole)]_vars

\* Gote has declared with 27 points, on its turn, with no check.
C12_Witness ==
  /\ phase = "declared"
  /\ out = [kind |-> "declare_win", player |-> "gote"]
  /\ inp.myRole = "gote" /\ turn = "gote"
  /\ getNyugyokuState(board, hands, "gote").score = 27
  /\ ~isKingInCheck(board, "gote")

(***************************************************************************)
(* The room as one client sees it: the state of useGameSocket (history,    *)
(* gameStatus, myRole, isLocalModeRef), of GameRoom (viewIndex,            *)
(* isLocalMode) and of useMoveLogic (isProcessingMove), kept in inp.  out  *)
(* holds what the last event emitted and what the server has broadcast.    *)
(* Each action is one event with the renders and effects that follow it.   *)
(***************************************************************************)
GameStatus == {"waiting", "playing", "finished", "analysis"}

\* A move with the time annotation the server attaches to it.
Timed(m, t) ==
  [fromHand |-> m.fromHand, from |-> m.from, to |-> m.to, piece |-> m.piece,
   drop |-> m.drop, isPromoted |-> m.isPromoted, time |-> t]

\* The moves the client under observation makes and the moves the other
\* clients of the room make: a pawn move of each side in each set.
OwnMoves == {Book[1], Book[2]}

OtherMoves ==
  {BoardMove(Sq(6, 6), Sq(6, 5), "Pawn", FALSE), BoardMove(Sq(2, 2), Sq(2, 3), "Pawn", FALSE)}

isSameMove(a, b) ==
  /\ a.fromHand = b.fromHand
  /\ (~a.fromHand => a.from = b.from)
  /\ a.to.x = b.to.x /\ a.to.y = b.to.y
  /\ a.piece = b.piece
  /\ a.drop = b.drop
  /\ a.isPromoted = b.isPromoted

\* Array.prototype.slice(0, n)
slice(h, n) == SubSeq(h, 1, IF n < Len(h) THEN n ELSE Len(h))

RECURSIVE updateDisplay(_, _)
\* The position after the first index moves, from the initial position.
updateDisplay(moves, index) ==
  IF index = 0 \/ Len(moves) = 0
  THEN [board |-> createInitialBoard, hands |-> [p \in Player |-> EMPTY_HAND],
        turn |-> "sente"]
  ELSE LET n == IF index < Len(moves) THEN index ELSE Len(moves)
           before == updateDisplay(moves, n - 1)
       IN applyMove(before.board, before.hands, moves[n], before.turn)

\* The effect on [history, viewIndex, isLocalMode]: outside local mode the
\* view follows the end of the history.
viewIndexEffect(st) ==
  IF ~st.isLocalMode THEN [st EXCEPT !.viewIndex = Len(st.history)] ELSE st

\* The message of sendMove; branchIndex -1 stands for a message without one.
sendMove(m, viewIndex, isFinishedOrAnalysis) ==
  [move |-> m, branchIndex |-> IF isFinishedOrAnalysis THEN viewIndex ELSE -1]

\* processMove without the test of the displayed turn.
useMoveLogic_NoTurnTest(st, displayTurn, m) ==
  LET quiet == [state |-> st, emitted |-> <<>>]
      isReview == st.gameStatus \in {"finished", "analysis"}
  IN IF st.gameStatus = "playing" /\ st.myRole \notin Player THEN quiet
     ELSE IF st.gameStatus = "playing" /\ st.viewIndex # Len(st.history) THEN quiet
     ELSE IF st.isProcessingMove THEN quiet
     ELSE IF st.isLocalMode
     THEN [state |-> [st EXCEPT !.history = Append(slice(@, st.viewIndex), m),
                                !.viewIndex = @ + 1],
           emitted |-> <<>>]
     ELSE [state |-> [st EXCEPT
                        !.isProcessingMove = TRUE,
                        !.history = IF isReview /\ st.viewIndex < Len(@)
                                    THEN Append(slice(@, st.viewIndex), m)
                                    ELSE Append(@, m),
                        !.viewIndex = @ + 1],
           emitted |-> <<sendMove(m, st.viewIndex, isReview)>>]

\* processMove of useMoveLogic on the state st with displayTurn shown: the
\* state it leaves and the messages it emits.
useMoveLogic(st, displayTurn, m) ==
  LET quiet == [state |-> st, emitted |-> <<>>]
      isReview == st.gameStatus \in {"finished", "analysis"}
  IN IF st.gameStatus = "playing" /\ st.myRole \notin Player THEN quiet
     ELSE IF st.gameStatus = "playing" /\ st.myRole # displayTurn THEN quiet
     ELSE IF st.gameStatus = "playing" /\ st.viewIndex # Len(st.history) THEN quiet
     ELSE IF st.isProcessingMove THEN quiet
     ELSE IF st.isLocalMode
     THEN [state |-> [st EXCEPT !.history = Append(slice(@, st.viewIndex), m),
                                !.viewIndex = @ + 1],
           emitted |-> <<>>]
     ELSE [state |-> [st EXCEPT
                        !.isProcessingMove = TRUE,
                        !.history = IF isReview /\ st.viewIndex < Len(@)
                                    THEN Append(slice(@, st.viewIndex), m)
                                    ELSE Append(@, m),
                        !.viewIndex = @ + 1],
           emitted |-> <<sendMove(m, st.viewIndex, isReview)>>]

\* Longest history of the room explored.
MaxHistory == 2

\* The histories a sync brings: the server's line of two moves, cut anywhere.
SyncHistories ==
  {SubSeq(<<Timed(Book[1], "set"), Timed(Book[2], "set")>>, 1, n) : n \in 0 .. 2}

\* The statuses a sync brings; analysis is handled as finished is by every
\* handler of the room.
SyncStatuses == {"waiting", "playing", "finished"}

\* The room is an ordinary room, not an analysis room.
isAnalysisRoom == FALSE

\* The state after the event: the client's state st once the effect has
\* run, the position displayed for it, and the record o of the event.
Rendered(st, o) ==
  LET settled == viewIndexEffect(st)
      shown == updateDisplay(settled.history, settled.viewIndex)
  IN /\ inp' = settled
     /\ out' = o
     /\ board' = shown.board
     /\ hands' = shown.hands
     /\ turn' = shown.turn
     /\ UNCHANGED <<ply, free, move, flag, verdict, phase>>

InitRoom ==
  /\ board = createInitialBoard
  /\ hands = [p \in Player |-> EMPTY_HAND]
  /\ turn = "sente"
  /\ ply = 0
  /\ free = 0
  /\ move = NoMove
  /\ flag = TRUE
  /\ verdict = "none"
  /\ phase = "room"
  /\ inp = [kind |-> "room", gameStatus |-> "waiting", history |-> <<>>,
            myRole |-> "audience", viewIndex |-> 0, isLocalMode |-> FALSE,
            isLocalModeRef |-> FALSE, isProcessingMove |-> FALSE]
  /\ out = [kind |-> "room", event |-> "mount", emitted |-> <<>>,
            pending |-> <<>>, log |-> <<>>, clean |-> TRUE]

\* The sync event: the server's history, status and, when given, the role.
sync ==
  /\ inp.kind = "room"
  /\ \E h \in SyncHistories, status \in SyncStatuses, yourRole \in Role \cup {"undefined"} :
       Rendered([inp EXCEPT !.history = h,
                            !.gameStatus = status,
                            !.myRole = IF yourRole = "undefined" THEN @ ELSE yourRole],
                [out EXCEPT !.event = "sync", !.emitted = <<>>,
                            !.pending = <<>>, !.log = h,
                            !.clean = ~inp.isLocalMode /\ ~inp.isLocalModeRef])

game_started ==
  /\ inp.kind = "room"
  /\ Rendered([inp EXCEPT !.isLocalModeRef = FALSE,
                          !.history = <<>>,
                          !.gameStatus = "playing"],
              [out EXCEPT !.event = "game_started", !.emitted = <<>>,
                          !.pending = <<>>, !.log = <<>>,
                          !.clean = ~inp.isLocalMode])

\* The handler of the server's move event on the move m.
onMove(st, m) ==
  IF st.isLocalModeRef THEN st
  ELSE LET prev == st.history
       IN IF Len(prev) > 0 /\ isSameMove(prev[Len(prev)], m)
          THEN [st EXCEPT !.history = [prev EXCEPT ![Len(prev)] = m]]
          ELSE [st EXCEPT !.history = Append(prev, m)]

\* The server broadcasts the client's oldest move not yet echoed.
echoMove ==
  /\ inp.kind = "room"
  /\ Len(out.pending) > 0
  /\ Len(out.log) < MaxHistory
  /\ LET m == Timed(Head(out.pending), "set")
     IN Rendered(onMove(inp, m),
                 [out EXCEPT !.event = "move", !.emitted = <<>>,
                             !.pending = Tail(@), !.log = Append(@, m)])

\* The server broadcasts a move another client has made on the position
\* the server holds.
otherMove ==
  /\ inp.kind = "room"
  /\ Len(inp.history) < MaxHistory
  /\ Len(out.log) < MaxHistory
  /\ \E m \in OtherMoves :
       LET held == updateDisplay(out.log, Len(out.log))
       IN /\ isValidMove(held.board, held.hands, held.turn, m, TRUE)
          /\ Rendered(onMove(inp, Timed(m, "set")),
                      [out EXCEPT !.event = "move", !.emitted = <<>>,
                                  !.log = Append(@, Timed(m, "set"))])

\* The user makes a move on the board: the click handlers pass on to
\* processMove a move that isValidMove accepts in the position displayed,
\* and none in a room that waits for its players.  (Not explored further
\* once the view index has passed MaxHistory or MaxHistory moves await
\* their echo.)
makeMove ==
  /\ inp.kind = "room"
  /\ ~(inp.gameStatus = "waiting" /\ ~isAnalysisRoom)
  /\ Len(inp.history) < MaxHistory
  /\ inp.viewIndex <= MaxHistory
  /\ Len(out.pending) < MaxHistory
  /\ \E m \in OwnMoves :
       LET res == useMoveLogic(inp, turn, Timed(m, "undefined"))
       IN /\ isValidMove(board, hands, turn, m, TRUE)
          /\ Rendered(res.state,
                      [out EXCEPT !.event = "processMove",
                                  !.emitted = res.emitted,
                                  !.pending = @ \o [i \in 1 .. Len(res.emitted) |-> m],
                                  !.clean = @ /\ ~inp.isLocalMode])

\* The timer of 500 ms set by processMove fires.
releaseGuard ==
  /\ inp.kind = "room"
  /\ inp.isProcessingMove
  /\ Rendered([inp EXCEPT !.isProcessingMove = FALSE],
              [out EXCEPT !.event = "timer", !.emitted = <<>>])

\* The buttons back and forward, drawn when no game is being played.
stepBack ==
  /\ inp.kind = "room"
  /\ inp.gameStatus # "playing"
  /\ Rendered([inp EXCEPT !.viewIndex = IF @ - 1 > 0 THEN @ - 1 ELSE 0],
              [out EXCEPT !.event = "back", !.emitted = <<>>])

stepForward ==
  /\ inp.kind = "room"
  /\ inp.gameStatus # "playing"
  /\ Rendered([inp EXCEPT !.viewIndex = IF @ + 1 < Len(inp.history)
                                        THEN @ + 1 ELSE Len(inp.history)],
              [out EXCEPT !.event = "forward", !.emitted = <<>>])

\* The button of local analysis, drawn when no game is being played and the
\* game is over or the room is an analysis room; leaving asks for
\* confirmation.
toggleLocalModeWrapper ==
  /\ inp.kind = "room"
  /\ inp.gameStatus # "playing"
  /\ inp.gameStatus \in {"finished", "analysis"} \/ isAnalysisRoom
  /\ \E confirmed \in BOOLEAN :
       Rendered(IF inp.isLocalMode
                THEN IF confirmed
                     THEN [inp EXCEPT !.isLocalMode = FALSE, !.isLocalModeRef = FALSE,
                                      !.viewIndex = Len(inp.history)]
                     ELSE inp
                ELSE [inp EXCEPT !.isLocalMode = TRUE, !.isLocalModeRef = TRUE],
                [out EXCEPT !.event = "toggle", !.emitted = <<>>,
                            !.clean = FALSE])

NextRoom ==
  \/ sync
  \/ game_started
  \/ echoMove
  \/ otherMove
  \/ makeMove
  \/ releaseGuard
  \/ stepBack
  \/ stepForward
  \/ toggleLocalModeWrapper

SpecRoom == InitRoom /\ [][NextRoom]_vars

(***************************************************************************)
(* Properties of the room (SpecRoom)                                       *)
(***************************************************************************)
\* How many entries of the history h are the move m.
Copies(h, m) == Cardinality({i \in 1 .. Len(h) : isSameMove(h[i], m)})

\* C34 (echo de-duplication): when the client has not been in local mode
\* since the last sync and none of its moves awaits its echo, every move is
\* in the history as many times as the server has broadcast it.
C34_EchoOnce ==
  (out.kind = "room" /\ out.clean /\ out.pending = <<>>) =>
    \A m \in OwnMoves \cup OtherMoves : Copies(inp.history, m) = Copies(out.log, m)

\* C35 (local-mode flags): isLocalMode of the room component and
\* isLocalModeRef of the socket hook hold the same value after every event.
C35_FlagsAgree ==
  out.kind = "room" => inp.isLocalMode = inp.isLocalModeRef

\* C36 (view index in range): after every event viewIndex lies between 0 and
\* the length of the history, and outside local mode it is that length.
C36_ViewInRange ==
  out.kind = "room" =>
    /\ 0 <= inp.viewIndex /\ inp.viewIndex <= Len(inp.history)
    /\ ~inp.isLocalMode => inp.viewIndex = Len(inp.history)

\* What processMove requires while a game is being played.
MayMove ==
  /\ inp.myRole \in Player
  /\ inp.myRole = turn
  /\ inp.viewIndex = Len(inp.history)

\* C37 (move submission gating): while gameStatus is playing, processMove
\* sends nothing and leaves history and viewIndex alone unless the role is
\* a player's, equals the displayed turn and the view is at the end of the
\* history; when these hold, the guard is clear and local mode is off, it
\* sends exactly one move and appends exactly one entry.
C37_SubmissionGated ==
  [][(out'.kind = "room" /\ out'.event = "processMove" /\ inp.gameStatus = "playing") =>
       /\ ~MayMove =>
            /\ out'.emitted = <<>>
            /\ inp'.history = inp.history
            /\ inp'.viewIndex = inp.viewIndex
       /\ (MayMove /\ ~inp.isProcessingMove /\ ~inp.isLocalMode) =>
            \E m \in OwnMoves :
              /\ out'.emitted = <<[move |-> Timed(m, "undefined"), branchIndex |-> -1]>>
              /\ inp'.history = Append(inp.history, Timed(m, "undefined"))
              /\ inp'.viewIndex = inp.viewIndex + 1]_vars

\* Gote has answered sente's first move in a game being played: one move
\* event was sent and the move is the last entry of the history.
C37_Witness ==
  /\ out.kind = "room" /\ out.event = "processMove"
  /\ inp.gameStatus = "playing" /\ inp.myRole = "gote"
  /\ Len(out.emitted) = 1
  /\ Len(inp.history) = 2
  /\ inp.history[2] = Timed(Book[2], "undefined")
  /\ inp.viewIndex = 2
  /\ inp.isProcessingMove

(***************************************************************************)
(* The time column of the terminal line of exportKIF, called on bounded    *)
(* clocks.                                                                 *)
(***************************************************************************)
Math_max(a, b) == IF a > b THEN a ELSE b

\* String.prototype.padStart(2, c) of a number written in decimal.
padStart2(n, c) == IF n < 10 THEN c \o ToString(n) ELSE ToString(n)

formatKifTime(seconds) ==
  padStart2(seconds \div 60, " ") \o ":" \o padStart2(seconds % 60, "0")

formatKifTotalTime(seconds) ==
  padStart2(seconds \div 3600, "0") \o ":" \o padStart2((seconds % 3600) \div 60, "0")
    \o ":" \o padStart2(seconds % 60, "0")

RECURSIVE loserPrevTotalFrom(_, _, _)
\* The loop from index i (counted from 1) down: the total of the loser's
\* last move, 0 when it carries no time or the loser has not moved.
loserPrevTotalFrom(history, loser, i) ==
  IF i < 1 THEN 0
  ELSE LET moveOwner == IF (i - 1) % 2 = 0 THEN "sente" ELSE "gote"
       IN IF moveOwner = loser
          THEN IF history[i].time.given THEN history[i].time.total ELSE 0
          ELSE loserPrevTotalFrom(history, loser, i - 1)

loserPrevTotal(history, loser) == loserPrevTotalFrom(history, loser, Len(history))

\* The time column in which byoyomi restarts the count of the total.
terminalTime_ByoyomiAlone(history, winner, endReason, clock) ==
  LET none == [now |-> 0, total |-> 0, timeStr |-> "( 0:00/00:00:00)"]
  IN IF endReason \in {"resign", "timeout"} /\ Truthy(winner) /\ clock.supplied
     THEN LET loser == IF winner = "sente" THEN "gote" ELSE "sente"
              prev == loserPrevTotal(history, loser)
              res ==
                IF clock.remainingTimes[loser] > 0
                THEN LET consumed == Math_max(0, clock.timeSettings.initial
                                                   - clock.remainingTimes[loser])
                     IN [now |-> Math_max(0, consumed - prev), total |-> consumed]
                ELSE IF clock.timeSettings.byoyomi > 0
                     THEN LET used == Math_max(0, clock.timeSettings.byoyomi
                                                    - clock.remainingByoyomi[loser])
                          IN [now |-> used, total |-> used]
                     ELSE [now |-> Math_max(0, clock.timeSettings.initial - prev),
                           total |-> clock.timeSettings.initial]
          IN [now |-> res.now, total |-> res.total,
              timeStr |-> "( " \o formatKifTime(res.now) \o "/"
                            \o formatKifTotalTime(res.total) \o ")"]
     ELSE none

\* The time column of the terminal line: resignThinkTime, loserTotalConsumed
\* and the text made of them.
terminalTime(history, winner, endReason, clock) ==
  LET none == [now |-> 0, total |-> 0, timeStr |-> "( 0:00/00:00:00)"]
  IN IF endReason \in {"resign", "timeout"} /\ Truthy(winner) /\ clock.supplied
     THEN LET loser == IF winner = "sente" THEN "gote" ELSE "sente"
              prev == loserPrevTotal(history, loser)
              res ==
                IF clock.remainingTimes[loser] > 0
                THEN LET consumed == Math_max(0, clock.timeSettings.initial
                                                   - clock.remainingTimes[loser])
                     IN [now |-> Math_max(0, consumed - prev), total |-> consumed]
                ELSE IF clock.timeSettings.byoyomi > 0
                     THEN LET used == Math_max(0, clock.timeSettings.byoyomi
                                                    - clock.remainingByoyomi[loser])
                          IN [now |-> used, total |-> prev + used]
                     ELSE [now |-> Math_max(0, clock.timeSettings.initial - prev),
                           total |-> clock.timeSettings.initial]
          IN [now |-> res.now, total |-> res.total,
              timeStr |-> "( " \o formatKifTime(res.now) \o "/"
                            \o formatKifTotalTime(res.total) \o ")"]
     ELSE none

\* Largest number of seconds on a clock handed to exportKIF.
MaxSeconds == 2

\* A history of n moves of the book line in which every move took pace
\* seconds; pace -1 stands for moves without a time annotation.
PacedHistory(n, pace) ==
  [i \in 1 .. n |->
     Timed(Book[i], IF pace < 0 THEN [given |-> FALSE, now |-> 0, total |-> 0]
                    ELSE [given |-> TRUE, now |-> pace, total |-> pace * ((i + 1) \div 2)])]

InitKifTime ==
  /\ board = createInitialBoard
  /\ hands = [p \in Player |-> EMPTY_HAND]
  /\ turn = "sente"
  /\ ply \in 0 .. MaxKifMoves
  /\ free = 0
  /\ move = NoMove
  /\ flag = TRUE
  /\ verdict = "none"
  /\ phase = "ready"
  /\ \E pace \in -1 .. MaxSeconds, winner \in Player \cup {"null"},
        endReason \in {"resign", "timeout", "checkmate"},
        initial \in 0 .. MaxSeconds, byoyomi \in 0 .. MaxSeconds,
        ts \in 0 .. MaxSeconds, tg \in 0 .. MaxSeconds, rb \in 0 .. MaxSeconds :
       inp = [kind |-> "kiftime", history |-> PacedHistory(ply, pace),
              winner |-> winner, endReason |-> endReason,
              clock |-> [supplied |-> TRUE,
                         timeSettings |-> [initial |-> initial, byoyomi |-> byoyomi],
                         remainingTimes |-> [sente |-> ts, gote |-> tg],
                         remainingByoyomi |-> [sente |-> rb, gote |-> rb]]]
  /\ out = NoOut

CallExportKIF ==
  /\ phase = "ready"
  /\ inp.kind = "kiftime"
  /\ out' = [kind |-> "kiftime",
             kif |-> exportKIF(inp.history, inp.winner, inp.endReason),
             time |-> terminalTime(inp.history, inp.winner, inp.endReason, inp.clock)]
  /\ phase' = "returned"
  /\ UNCHANGED <<board, hands, turn, ply, free, move, flag, verdict, inp>>

NextKifTime == CallExportKIF

SpecKifTime == InitKifTime /\ [][NextKifTime]_vars

\* exportKIF has returned a terminal line for a resignation or a timeout
\* with a winner.
TimedTerminal ==
  /\ phase = "returned" /\ out.kind = "kiftime"
  /\ inp.endReason \in {"resign", "timeout"} /\ inp.winner \in Player

\* The loser's clock, previous total and consumed main time.
Loser == Other(inp.winner)

PrevTotal == loserPrevTotal(inp.history, Loser)

\* The loser's previous total does not exceed what the clock says the loser
\* has consumed of the main time.
ClockAgrees ==
  IF inp.clock.remainingTimes[Loser] > 0
  THEN PrevTotal <= inp.clock.timeSettings.initial - inp.clock.remainingTimes[Loser]
  ELSE inp.clock.timeSettings.byoyomi > 0 \/ PrevTotal <= inp.clock.timeSettings.initial

====
